---- MODULE Spec2Model ----
(***************************************************************************)
(* A model of the iTrack backend (KentJhon/capstone_itrack).               *)
(*                                                                         *)
(* The predictive auto-train scheduler of backend/main.py, the manual       *)
(* training endpoint, the read endpoints and the forecast endpoints of     *)
(* backend/routers/predictive.py, as one process with an event loop, an    *)
(* executor worker and request handlers.  Wall-clock time is counted in    *)
(* ticks; TicksPerDay ticks make one UTC calendar day.                     *)
(*                                                                         *)
(* services/predictive_service.py is not part of the source tree: what the *)
(* model needs of it (the training pass, the status, the snapshot, the     *)
(* forecast and the restock plan) follows the specification's description. *)
(***************************************************************************)
EXTENDS Integers, Sequences, FiniteSets, TLC

\* ------------------------------------------------------------------ bounds
TicksPerDay == 2
MaxTime == 4
MaxRestarts == 1
MaxNameLen == 2
MaxQty == 2
MaxLog == 2

\* --------------------------------------------------------------- variables
VARIABLES
    now,            \* wall clock, in ticks
    proc,           \* "up" | "stopping" (after _shutdown)
    restarts,       \* process restarts so far
    schedPc,        \* position of _predictive_auto_train_loop
    sleepStart,     \* tick at which the current asyncio.sleep(24h) started
    workerPc,       \* the executor call of train_from_db_and_persist
    manPc,          \* position of a /predictive/train/all request
    rd,             \* a read request (/predictive/status, /predictive/models)
    status,         \* in-memory TrainStatus
    cache,          \* ITEM_MODELS: source tag of the pass that last wrote it
    disk,           \* persisted snapshot: [status, models]
    startsToday,    \* history: scheduled retrains started this UTC day
    procStartsToday,\* history: the same, by the running process only
    nFailed,        \* history: failed scheduled retrains so far
    skipSawManual,  \* history: the scheduler's last check skipped while the
                    \* manual training still in progress was under way
    stockTable,     \* rows of table item: <<[name, qty], ...>>
    dbHist,         \* issuance history in the database: rows [item_name, qty]
    xlsHist,        \* issuance history in the spreadsheet
    nLog,           \* rows of table activity_logs
    req,            \* a forecast request and its handler's position
    calc,           \* a call of recommended_restock_plan: input and rows
    bt,             \* a call of forecast_from_train (backtest_predictive.py)
    batch,          \* a training pass over the eligible items, item by item
    la,             \* a call of log_activity
    itemTbl,        \* table item: item_id -> [present, stock_quantity]
    hnd,            \* the /items requests in progress, one per worker thread
    actLog,         \* rows of activity_logs written for /items requests
    ihist,          \* history: requests so far, committed mutations, stock added
    orderLine,      \* table order_line: order_line_id -> row
    sc,             \* a PUT /stockcard/{item_id} request
    au              \* a /refresh or /me request

schedVars == <<now, proc, restarts, schedPc, sleepStart, workerPc, manPc, rd,
               status, cache, disk, startsToday, procStartsToday, nFailed,
               skipSawManual>>
dataVars == <<stockTable, dbHist, xlsHist>>
reqVars == <<nLog, req>>
fnVars == <<calc, bt, batch, la>>
itemVars == <<itemTbl, hnd, actLog, ihist>>
sideVars == <<orderLine, sc, au>>
crudVars == <<itemVars, sideVars>>
vars == <<schedVars, dataVars, reqVars, fnVars, crudVars>>

\* ------------------------------------------------------------- time, dates
Day(t) == t \div TicksPerDay

\* datetime.utcnow().date()
Today == Day(now)

\* asyncio.sleep(24 * 60 * 60), in ticks
\* Variant: a sleep one tick short of a day.
SleepTicksShort == TicksPerDay - 1
SleepTicks == TicksPerDay

\* Values status["last_trained_utc"] can hold: nothing, something that is
\* not a string, a string that is no ISO timestamp, an ISO timestamp.
Iso(d) == [kind |-> "iso", day |-> d]
Missing == [kind |-> "missing", day |-> -1]
NonStr == [kind |-> "nonstr", day |-> -1]
BadStr == [kind |-> "badstr", day |-> -1]

\* isinstance(last_ts, str)
IsStr(ts) == ts.kind \in {"iso", "badstr"}

\* datetime.fromisoformat(last_ts.replace("Z", "+00:00")): raises on a string
\* that is no ISO timestamp
ParseIso(ts) ==
    IF ts.kind = "iso" THEN [ok |-> TRUE, date |-> ts.day]
    ELSE [ok |-> FALSE, date |-> -1]

\* already_ran_today of the scheduler's check
\* Variant: a string that does not parse counts as a run today.
AlreadyRanTodayLax(last_ts, today) ==
    IsStr(last_ts) /\ (ParseIso(last_ts).ok => ParseIso(last_ts).date = today)
AlreadyRanToday(last_ts, today) ==
    IF IsStr(last_ts)
    THEN IF ParseIso(last_ts).ok
         THEN ParseIso(last_ts).date = today
         ELSE FALSE
    ELSE FALSE

\* get_train_status()
GetTrainStatus == status

\* The status a training pass writes when it persists: stamped with the UTC
\* time of the save, tagged with its source.
NewStatus(source) == [last_trained_utc |-> Iso(Today), source |-> source]

StatusValues ==
    [last_trained_utc : {Missing, NonStr, BadStr}, source : {"none"}]
        \cup {[last_trained_utc |-> Iso(0), source |-> "db_auto"]}

\* save_models_to_disk: one snapshot of the cache and the status
Snapshot(st, models) == [status |-> st, models |-> models]

\* Where the training call runs: run_in_executor hands it to a worker thread,
\* so the event loop is free while the scheduler awaits it.
\* Variant: the training call made on the event loop itself.
TrainDispatchInline == "inline"
TrainDispatch == "executor"

LoopBlocked == schedPc = "training" /\ TrainDispatch = "inline"

IdleRd == [pc |-> "idle", during |-> FALSE]

\* ------------------------------------------------------------ item names
\* Item names are strings over a small alphabet with one cased letter and the
\* blank, which is all that str.strip() and str.casefold() tell apart.
Chars == {"B", "b", " "}
Names == UNION {[1..n -> Chars] : n \in 1..MaxNameLen}

CasefoldChar(c) == IF c = "B" THEN "b" ELSE c
\* str.casefold()
Casefold(s) == [i \in 1..Len(s) |-> CasefoldChar(s[i])]

RECURSIVE LStrip(_)
LStrip(s) ==
    IF s = <<>> THEN s
    ELSE IF Head(s) = " " THEN LStrip(Tail(s)) ELSE s
RECURSIVE RStrip(_)
RStrip(s) ==
    IF s = <<>> THEN s
    ELSE IF s[Len(s)] = " " THEN RStrip(SubSeq(s, 1, Len(s) - 1)) ELSE s
\* str.strip()
Strip(s) == RStrip(LStrip(s))

\* The normal form the services use for a name: trimmed and case-folded.
Norm(s) == Casefold(Strip(s))

MaxOf(S) == CHOOSE x \in S : \A y \in S : y <= x
Max2(a, b) == IF a >= b THEN a ELSE b

\* ------------------------------------------------------------ stock lookup
\* _get_stock_from_db(): the rows of table item, names stripped.
GetStockFromDb(table) ==
    [i \in 1..Len(table) |-> [name |-> Strip(table[i].name), qty |-> table[i].qty]]

\* stock_map = {n.casefold(): int(q) ...}; stock_map.get(item_name.casefold(), 0)
\* A later row with the same key replaces an earlier one.
StockMapGet(stock_df, key) ==
    LET hits == {i \in 1..Len(stock_df) : Casefold(stock_df[i].name) = key}
    IN  IF hits = {} THEN 0 ELSE stock_df[MaxOf(hits)].qty

\* The key the single-item endpoints look the request's name up with.
LookupKey(item_name) == Casefold(item_name)

CurrentStock(table, item_name) ==
    StockMapGet(GetStockFromDb(table), LookupKey(item_name))

\* ----------------------------------------- forecasting (predictive_service)
\* Months a forecast covers (forecast_next_6_months_for_itemname).
Horizon == 6

\* The history rows of an item, names compared in normal form.
HistoryOf(hist, item_name) == {r \in hist : Norm(r.item_name) = Norm(item_name)}
HasHistory(hist, item_name) == HistoryOf(hist, item_name) # {}

RECURSIVE SumQty(_)
SumQty(rows) ==
    IF rows = {} THEN 0
    ELSE LET r == CHOOSE x \in rows : TRUE IN r.qty + SumQty(rows \ {r})

\* Keys of ITEM_MODELS once a training pass has filled it.
TrainedKeys == {<<"b">>}
CachedModel(key) == cache # "none" /\ key \in TrainedKeys

\* What a cached model predicts for a month: opaque, fixed per model.
ModelPrediction(key) == Len(key) + MaxQty

\* One month's forecast: the cached model's when there is one, else the
\* heuristic over the item's history.
MonthQty(hist, item_name) ==
    IF CachedModel(Norm(item_name))
    THEN ModelPrediction(Norm(item_name))
    ELSE SumQty(HistoryOf(hist, item_name))

\* forecast_next_6_months_for_itemname(hist, item_name); raises for an item
\* without history.
Forecast6(hist, item_name) == [m \in 1..Horizon |-> MonthQty(hist, item_name)]
\* forecast_next_month_safe(hist, item_name)
ForecastNextMonth(hist, item_name) == MonthQty(hist, item_name)
ForecastRaises(hist, item_name) == ~HasHistory(hist, item_name)

\* Variant: every month is planned against the stock on hand today.
RECURSIVE RestockPlanNoCarry(_, _)
RestockPlanNoCarry(fc, running) ==
    IF fc = <<>> THEN <<>>
    ELSE <<Max2(0, Head(fc) - running)>>
            \o RestockPlanNoCarry(Tail(fc), running)

\* Variant: the rows hold the stock left over instead of the stock missing.
RECURSIVE RestockPlanSurplus(_, _)
RestockPlanSurplus(fc, running) ==
    IF fc = <<>> THEN <<>>
    ELSE <<Max2(0, running - Head(fc))>>
            \o RestockPlanSurplus(Tail(fc), Max2(0, running - Head(fc)))

\* recommended_restock_plan(monthly, current_stock): walk the months with a
\* running stock; restock what the running stock does not cover.
RECURSIVE RestockPlan(_, _)
RestockPlan(fc, running) ==
    IF fc = <<>> THEN <<>>
    ELSE <<Max2(0, Head(fc) - running)>>
            \o RestockPlan(Tail(fc), Max2(0, running - Head(fc)))

RECURSIVE SumSeq(_)
SumSeq(q) == IF q = <<>> THEN 0 ELSE Head(q) + SumSeq(Tail(q))

\* ------------------------------------------------------ forecast requests
SingleEps == {"forecast_item", "next_month_item", "export"}
AllEps == {"forecast_all", "next_month_all"}
Endpoints == SingleEps \cup AllEps

\* Where a handler starts loading history: load_history_from_db() first for
\* four of them, load_history_from_excel() at once for /export.
FirstLoad(ep) == IF ep = "export" THEN "load_xls" ELSE "load_db"

NoBody == [kind |-> "none", current_stock |-> 0, forecast |-> <<>>,
           restock |-> <<>>, rows |-> {}]
\* History of the /predictive/forecast/all calls of a client that repeats
\* them: how many it made (0, 1, or 2 for more), the rows of the latest and the
\* model cache that one ran over.
NoPrev == [calls |-> 0, rows |-> {}, cache |-> "none"]
IdleReq == [pc |-> "idle", ep |-> "none", item_name |-> <<>>, reads |-> <<>>,
            dbEmpty |-> FALSE, hist |-> {}, current_stock |-> 0, code |-> 0,
            cause |-> "none", body |-> NoBody, log0 |-> 0, failed |-> {},
            prev |-> NoPrev]

HistRow(n, q) == [item_name |-> n, qty |-> q]
StockRow(n, q) == [name |-> n, qty |-> q]

\* Tables the requests run against.
StockTables ==
    {<<>>} \cup {<<StockRow(n, q)>> : n \in {<<"B">>, <<"B", " ">>}, q \in {MaxQty}}
          \cup {<<StockRow(<<"B">>, 1), StockRow(<<"b">>, MaxQty)>>,
                <<StockRow(<<"B">>, 1), StockRow(<<"B", "b">>, MaxQty)>>}
DbHists == {{}, {HistRow(<<"B">>, MaxQty)},
            {HistRow(<<"B">>, MaxQty), HistRow(<<"b", "B">>, 1)}}
XlsHists == {{}, {HistRow(<<"b", " ">>, 1)}}

\* No call of a planning or forecasting function is under way.
IdleCalc == [pc |-> "idle", fc |-> <<>>, stock |-> 0, rows |-> <<>>]

IdleBt == [pc |-> "idle", ys |-> <<>>, horizon |-> 0, path |-> "none",
           yhat |-> <<>>, out |-> <<>>]

IdleBatch == [pc |-> "idle", eligible |-> {}, todo |-> <<>>, trained |-> <<>>,
              skipped |-> <<>>, models |-> {}, code |-> 0]

\* SQL NULL / Python None, or an integer
Null == [null |-> TRUE, n |-> 0]
IntVal(n) == [null |-> FALSE, n |-> n]

IdleLa == [pc |-> "idle", user_id |-> [kind |-> "none", n |-> 0],
           uid |-> Null, conn |-> "none", cur |-> "none", logged |-> "none",
           row |-> <<>>, outcome |-> "none"]

\* ----------------------------------------------- the item table's requests
MaxItemId == 2
MaxReqs == 2
MaxAdd == 2

ItemIds == 1..MaxItemId
\* The item_id values table item can hold: the one row it starts with and one
\* AUTO_INCREMENT id for each request that can arrive.
RowIds == 1..Max2(MaxItemId, MaxReqs + 1)
\* worker threads serving /items requests
Handlers == {"h1", "h2"}

NoRow == [present |-> FALSE, stock |-> 0]
IdleHnd == [pc |-> "idle", op |-> "none", item_id |-> 0, qty |-> 0, rid |-> 0,
            row |-> NoRow, old_stock |-> 0, new_stock |-> 0, code |-> 0,
            conn |-> "none", cur |-> "none"]
NoHist == [n |-> 0, nextId |-> 1, committed |-> {},
           added |-> [i \in RowIds |-> 0], onlyAdds |-> [i \in RowIds |-> TRUE]]

\* --------------------------------------------- the stock card's order lines
MaxLineId == 2
MaxMoves == 2

\* order_line_id values a payload may name: the rows and one id without a row
LineIds == 1..(MaxLineId + 1)

NoLine == [present |-> FALSE, item_id |-> 0, order_id |-> 0, quantity |-> 0,
           reference_no |-> "NULL", office |-> "NULL",
           days_to_consume |-> "NULL", receipt_qty |-> "NULL"]
NoLines == [l \in LineIds |-> NoLine]
IdleSc == [pc |-> "idle", item_id |-> 0, movements |-> <<>>, done |-> 0,
           before |-> NoLines, tx |-> NoLines, code |-> 0, conn |-> "none"]

\* ------------------------------------------------------ /refresh and /me
NoToken == [kind |-> "none", type |-> "none", sub |-> 0, role |-> "none"]
IdleAu == [pc |-> "idle", ep |-> "none", token |-> NoToken, code |-> 0,
           cookies |-> {}, user |-> 0]

SideIdle ==
    /\ orderLine = NoLines
    /\ sc = IdleSc
    /\ au = IdleAu

CrudIdle ==
    /\ itemTbl = [i \in RowIds |-> NoRow]
    /\ hnd = [h \in Handlers |-> IdleHnd]
    /\ actLog = {}
    /\ ihist = NoHist
    /\ SideIdle

FnIdle ==
    /\ calc = IdleCalc
    /\ bt = IdleBt
    /\ batch = IdleBatch
    /\ la = IdleLa
    /\ CrudIdle

\* A /predictive/train/all request is between its arrival and its answer.
ManualInProgress == manPc \in {"loading", "training", "saving"}

\* ------------------------------------------------------------------- Init
\* The process has run _startup: load_models_from_disk() has put the persisted
\* snapshot (any status a snapshot file can hold) into memory and the scheduler
\* task has been created.
InitSched ==
    /\ now = 0
    /\ proc = "up"
    /\ restarts = 0
    /\ schedPc = "startup_sleep"
    /\ sleepStart = 0
    /\ workerPc = "none"
    /\ manPc = "idle"
    /\ skipSawManual = FALSE
    /\ rd = IdleRd
    /\ status \in StatusValues
    /\ cache = status.source
    /\ disk = Snapshot(status, cache)
    /\ startsToday = 0
    /\ procStartsToday = 0
    /\ nFailed = 0

Init ==
    /\ InitSched
    /\ stockTable = <<>>
    /\ dbHist = {}
    /\ xlsHist = {}
    /\ nLog = 0
    /\ req = IdleReq
    /\ FnIdle

\* ------------------------------------------------------------------ clock
Tick ==
    /\ now < MaxTime
    /\ now' = now + 1
    /\ startsToday' = IF Day(now + 1) = Day(now) THEN startsToday ELSE 0
    /\ procStartsToday' = IF Day(now + 1) = Day(now) THEN procStartsToday ELSE 0
    /\ skipSawManual' = skipSawManual
    /\ UNCHANGED <<proc, restarts, schedPc, sleepStart, workerPc, manPc, rd,
                   status, cache, disk, nFailed,
                   dataVars, reqVars, fnVars, crudVars>>

\* -------------------------------------------------------------- scheduler
\* The first sleep (5 s) is shorter than a tick; the daily sleep ends no
\* earlier than SleepTicks after it began.
SleepOver ==
    \/ schedPc = "startup_sleep"
    \/ schedPc = "sleeping" /\ now - sleepStart >= SleepTicks

\* A wake-up whose check finds no run today: Idle -> Training.
SchedWakeTrain ==
    /\ proc = "up"
    /\ SleepOver
    /\ ~AlreadyRanToday(GetTrainStatus.last_trained_utc, Today)
    /\ schedPc' = "training"
    /\ workerPc' = "running"
    /\ startsToday' = startsToday + 1
    /\ procStartsToday' = procStartsToday + 1
    /\ skipSawManual' = FALSE
    /\ UNCHANGED <<now, proc, restarts, sleepStart, manPc, rd, status, cache,
                   disk, nFailed,
                   dataVars, reqVars, fnVars, crudVars>>

\* A wake-up whose check finds a run dated today: skip, sleep a day.
SchedWakeSkip ==
    /\ proc = "up"
    /\ SleepOver
    /\ AlreadyRanToday(GetTrainStatus.last_trained_utc, Today)
    /\ schedPc' = "sleeping"
    /\ sleepStart' = now
    /\ skipSawManual' = ManualInProgress
    /\ UNCHANGED <<now, proc, restarts, workerPc, manPc, rd, status, cache,
                   disk, startsToday, procStartsToday, nFailed,
                   dataVars, reqVars, fnVars, crudVars>>

\* The awaited call returned: log, then sleep a day.
\* Variant: the loop goes round without its sleep and check.
SchedTrainFinishedNoSleep ==
    /\ proc = "up"
    /\ schedPc = "training"
    /\ workerPc = "ok"
    /\ schedPc' = "training"
    /\ workerPc' = "running"
    /\ skipSawManual' = skipSawManual
    /\ UNCHANGED <<now, proc, restarts, sleepStart, manPc, rd, status, cache,
                   disk, startsToday, procStartsToday, nFailed,
                   dataVars, reqVars, fnVars, crudVars>>
SchedTrainFinished ==
    /\ proc = "up"
    /\ schedPc = "training"
    /\ workerPc = "ok"
    /\ schedPc' = "sleeping"
    /\ sleepStart' = now
    /\ workerPc' = "none"
    /\ skipSawManual' = skipSawManual
    /\ UNCHANGED <<now, proc, restarts, manPc, rd, status, cache, disk,
                   startsToday, procStartsToday, nFailed,
                   dataVars, reqVars, fnVars, crudVars>>

\* The awaited call raised: except Exception logs it, then sleep a day.
\* Variant: no except clause, the exception ends the task.
SchedTrainFailedDies ==
    /\ proc = "up"
    /\ schedPc = "training"
    /\ workerPc = "failed"
    /\ schedPc' = "dead"
    /\ workerPc' = "none"
    /\ nFailed' = nFailed + 1
    /\ skipSawManual' = skipSawManual
    /\ UNCHANGED <<now, proc, restarts, sleepStart, manPc, rd, status, cache,
                   disk, startsToday, procStartsToday,
                   dataVars, reqVars, fnVars, crudVars>>
SchedTrainFailed ==
    /\ proc = "up"
    /\ schedPc = "training"
    /\ workerPc = "failed"
    /\ schedPc' = "sleeping"
    /\ sleepStart' = now
    /\ workerPc' = "none"
    /\ nFailed' = nFailed + 1
    /\ skipSawManual' = skipSawManual
    /\ UNCHANGED <<now, proc, restarts, manPc, rd, status, cache, disk,
                   startsToday, procStartsToday,
                   dataVars, reqVars, fnVars, crudVars>>

\* ------------------------------------------ train_from_db_and_persist (worker)
\* The pass first fits the models into the cache, then persists the snapshot
\* and the status; it may raise at either step, or never return.
WorkerTrain ==
    /\ workerPc = "running"
    /\ workerPc' = "persisting"
    /\ cache' = "db_auto"
    /\ skipSawManual' = skipSawManual
    /\ UNCHANGED <<now, proc, restarts, schedPc, sleepStart, manPc, rd, status,
                   disk, startsToday, procStartsToday, nFailed,
                   dataVars, reqVars, fnVars, crudVars>>

WorkerPersist ==
    /\ workerPc = "persisting"
    /\ workerPc' = "ok"
    /\ status' = NewStatus("db_auto")
    /\ disk' = Snapshot(status', cache)
    /\ skipSawManual' = skipSawManual
    /\ UNCHANGED <<now, proc, restarts, schedPc, sleepStart, manPc, rd, cache,
                   startsToday, procStartsToday, nFailed,
                   dataVars, reqVars, fnVars, crudVars>>

WorkerRaise ==
    /\ workerPc \in {"running", "persisting"}
    /\ workerPc' = "failed"
    /\ skipSawManual' = skipSawManual
    /\ UNCHANGED <<now, proc, restarts, schedPc, sleepStart, manPc, rd, status,
                   cache, disk, startsToday, procStartsToday, nFailed,
                   dataVars, reqVars, fnVars, crudVars>>

WorkerHang ==
    /\ workerPc = "running"
    /\ workerPc' = "hung"
    /\ skipSawManual' = skipSawManual
    /\ UNCHANGED <<now, proc, restarts, schedPc, sleepStart, manPc, rd, status,
                   cache, disk, startsToday, procStartsToday, nFailed,
                   dataVars, reqVars, fnVars, crudVars>>

\* ------------------------------------------------- /predictive/train/all
\* Variant: a manual training waits for the scheduled one.
ManualStartLocked ==
    /\ proc = "up"
    /\ ~LoopBlocked
    /\ schedPc # "training"
    /\ manPc = "idle"
    /\ manPc' = "loading"
    /\ skipSawManual' = FALSE
    /\ UNCHANGED <<now, proc, restarts, schedPc, sleepStart, workerPc, rd,
                   status, cache, disk, startsToday, procStartsToday, nFailed,
                   dataVars, reqVars, fnVars, crudVars>>
ManualStart ==
    /\ proc = "up"
    /\ ~LoopBlocked
    /\ manPc = "idle"
    /\ manPc' = "loading"
    /\ skipSawManual' = FALSE
    /\ UNCHANGED <<now, proc, restarts, schedPc, sleepStart, workerPc, rd,
                   status, cache, disk, startsToday, procStartsToday, nFailed,
                   dataVars, reqVars, fnVars, crudVars>>

\* load_history_from_excel() returned
ManualLoad ==
    /\ manPc = "loading"
    /\ manPc' = "training"
    /\ skipSawManual' = skipSawManual
    /\ UNCHANGED <<now, proc, restarts, schedPc, sleepStart, workerPc, rd,
                   status, cache, disk, startsToday, procStartsToday, nFailed,
                   dataVars, reqVars, fnVars, crudVars>>

\* train_models_for_eligible_items(df) returned: the cache holds its models
ManualTrain ==
    /\ manPc = "training"
    /\ manPc' = "saving"
    /\ cache' = "csv_manual"
    /\ skipSawManual' = skipSawManual
    /\ UNCHANGED <<now, proc, restarts, schedPc, sleepStart, workerPc, rd,
                   status, disk, startsToday, procStartsToday, nFailed,
                   dataVars, reqVars, fnVars, crudVars>>

\* Variant: the save persists the models under the status it found.
ManualSaveStale ==
    /\ manPc = "saving"
    /\ manPc' = "done200"
    /\ disk' = Snapshot(status, cache)
    /\ skipSawManual' = FALSE
    /\ UNCHANGED <<now, proc, restarts, schedPc, sleepStart, workerPc, rd,
                   status, cache, startsToday, procStartsToday, nFailed,
                   dataVars, reqVars, fnVars, crudVars>>

\* save_models_to_disk(source="csv_manual", ...) returned
ManualSave ==
    /\ manPc = "saving"
    /\ manPc' = "done200"
    /\ status' = NewStatus("csv_manual")
    /\ disk' = Snapshot(status', cache)
    /\ skipSawManual' = FALSE
    /\ UNCHANGED <<now, proc, restarts, schedPc, sleepStart, workerPc, rd,
                   cache, startsToday, procStartsToday, nFailed,
                   dataVars, reqVars, fnVars, crudVars>>

\* Any of the three calls raised: HTTPException(400)
\* Variant: the save runs although a call raised.
ManualRaiseSaves ==
    /\ manPc \in {"loading", "training", "saving"}
    /\ manPc' = "done400"
    /\ status' = NewStatus("csv_manual")
    /\ disk' = Snapshot(status', cache)
    /\ skipSawManual' = FALSE
    /\ UNCHANGED <<now, proc, restarts, schedPc, sleepStart, workerPc, rd,
                   cache, startsToday, procStartsToday, nFailed,
                   dataVars, reqVars, fnVars, crudVars>>
ManualRaise ==
    /\ manPc \in {"loading", "training", "saving"}
    /\ manPc' = "done400"
    /\ skipSawManual' = FALSE
    /\ UNCHANGED <<now, proc, restarts, schedPc, sleepStart, workerPc, rd,
                   status, cache, disk, startsToday, procStartsToday, nFailed,
                   dataVars, reqVars, fnVars, crudVars>>

\* The response has been sent.
ManualRespond ==
    /\ ~LoopBlocked
    /\ manPc \in {"done200", "done400"}
    /\ manPc' = "idle"
    /\ skipSawManual' = FALSE
    /\ UNCHANGED <<now, proc, restarts, schedPc, sleepStart, workerPc, rd,
                   status, cache, disk, startsToday, procStartsToday, nFailed,
                   dataVars, reqVars, fnVars, crudVars>>

\* --------------------------------- /predictive/status, /predictive/models
ReadStart ==
    /\ proc = "up"
    /\ ~LoopBlocked
    /\ rd.pc = "idle"
    /\ rd' = [pc |-> "running", during |-> schedPc = "training"]
    /\ skipSawManual' = skipSawManual
    /\ UNCHANGED <<now, proc, restarts, schedPc, sleepStart, workerPc, manPc,
                   status, cache, disk, startsToday, procStartsToday, nFailed,
                   dataVars, reqVars, fnVars, crudVars>>

\* get_train_status() / list_cached_models() read and the response is sent
ReadDone ==
    /\ ~LoopBlocked
    /\ rd.pc = "running"
    /\ rd' = [pc |-> "done", during |-> rd.during /\ schedPc = "training"]
    /\ skipSawManual' = skipSawManual
    /\ UNCHANGED <<now, proc, restarts, schedPc, sleepStart, workerPc, manPc,
                   status, cache, disk, startsToday, procStartsToday, nFailed,
                   dataVars, reqVars, fnVars, crudVars>>

ReadClose ==
    /\ rd.pc = "done"
    /\ rd' = IdleRd
    /\ skipSawManual' = skipSawManual
    /\ UNCHANGED <<now, proc, restarts, schedPc, sleepStart, workerPc, manPc,
                   status, cache, disk, startsToday, procStartsToday, nFailed,
                   dataVars, reqVars, fnVars, crudVars>>


\* ------------------------------------------------------ forecast handlers
\* /predictive/forecast/item, /forecast/all, /export, /next_month/item and
\* /next_month/all.  The tables do not change while requests are served.
ReqStart ==
    /\ proc = "up"
    /\ req.pc = "idle"
    /\ nLog < MaxLog
    /\ \E ep \in Endpoints :
       \E name \in (IF ep \in SingleEps THEN Names ELSE {<<>>}) :
          req' = [IdleReq EXCEPT !.pc = FirstLoad(ep), !.ep = ep,
                                 !.item_name = name, !.log0 = nLog,
                                 !.prev = req.prev]
    /\ UNCHANGED <<schedVars, dataVars, nLog, fnVars, crudVars>>

\* hist = load_history_from_db(); if hist.empty: fall back to the spreadsheet
ReqLoadDb ==
    /\ req.pc = "load_db"
    /\ req' = [req EXCEPT !.reads = Append(@, "db"),
                          !.dbEmpty = (dbHist = {}),
                          !.hist = dbHist,
                          !.pc = IF dbHist = {} THEN "load_xls" ELSE "stock"]
    /\ UNCHANGED <<schedVars, dataVars, nLog, fnVars, crudVars>>

\* hist = load_history_from_excel()
ReqLoadXls ==
    /\ req.pc = "load_xls"
    /\ req' = [req EXCEPT !.reads = Append(@, "xls"),
                          !.hist = xlsHist,
                          !.pc = "stock"]
    /\ UNCHANGED <<schedVars, dataVars, nLog, fnVars, crudVars>>

\* Either load raised: HTTPException(400, "Data load failed")
ReqLoadFail ==
    /\ req.pc \in {"load_db", "load_xls"}
    /\ req' = [req EXCEPT !.reads = Append(@, IF req.pc = "load_db" THEN "db" ELSE "xls"),
                          !.pc = "done", !.code = 400, !.cause = "load"]
    /\ UNCHANGED <<schedVars, dataVars, nLog, fnVars, crudVars>>

\* stock_df = _get_stock_from_db(); current_stock = stock_map.get(...)
ReqStock ==
    /\ req.pc = "stock"
    /\ req' = [req EXCEPT !.current_stock =
                              IF req.ep \in SingleEps
                              THEN CurrentStock(stockTable, req.item_name)
                              ELSE 0,
                          !.pc = "forecast"]
    /\ UNCHANGED <<schedVars, dataVars, nLog, fnVars, crudVars>>

\* _get_stock_from_db() raised; nothing catches it: 500
ReqStockFail ==
    /\ req.pc = "stock"
    /\ req' = [req EXCEPT !.pc = "done", !.code = 500, !.cause = "stock"]
    /\ UNCHANGED <<schedVars, dataVars, nLog, fnVars, crudVars>>

\* Variant: the plan of the six-month endpoints starts from an empty shelf.
SingleBodyEmptyShelf(ep, hist, item_name, stock) ==
    IF ep = "next_month_item"
    THEN [NoBody EXCEPT !.kind = "next_month", !.current_stock = stock,
                        !.forecast = <<ForecastNextMonth(hist, item_name)>>]
    ELSE [NoBody EXCEPT !.kind = "plan", !.current_stock = stock,
                        !.forecast = Forecast6(hist, item_name),
                        !.restock = RestockPlan(Forecast6(hist, item_name), 0)]

\* The forecast of a single-item endpoint and, for the six-month ones, its
\* restock plan.
SingleBody(ep, hist, item_name, stock) ==
    IF ep = "next_month_item"
    THEN [NoBody EXCEPT !.kind = "next_month", !.current_stock = stock,
                        !.forecast = <<ForecastNextMonth(hist, item_name)>>]
    ELSE [NoBody EXCEPT !.kind = "plan", !.current_stock = stock,
                        !.forecast = Forecast6(hist, item_name),
                        !.restock = RestockPlan(Forecast6(hist, item_name), stock)]

ReqForecast ==
    /\ req.pc = "forecast"
    /\ req.ep \in SingleEps
    /\ ~ForecastRaises(req.hist, req.item_name)
    /\ req' = [req EXCEPT !.body = SingleBody(req.ep, req.hist, req.item_name,
                                              req.current_stock),
                          !.pc = IF req.ep = "export" THEN "export" ELSE "log"]
    /\ UNCHANGED <<schedVars, dataVars, nLog, fnVars, crudVars>>

\* Variant: a forecast failure answered with a forecast of nothing.
ReqForecastFailAsZero ==
    /\ req.pc = "forecast"
    /\ req.ep \in SingleEps
    /\ ForecastRaises(req.hist, req.item_name)
    /\ req' = [req EXCEPT !.pc = "done", !.code = 200, !.cause = "forecast",
                          !.body = [NoBody EXCEPT !.kind = "next_month",
                                                  !.forecast = <<0>>]]
    /\ UNCHANGED <<schedVars, dataVars, nLog, fnVars, crudVars>>
\* The forecast raised: HTTPException(404)
\* Variant: a forecast failure answered like a load failure.
ReqForecastFailAs400 ==
    /\ req.pc = "forecast"
    /\ req.ep \in SingleEps
    /\ ForecastRaises(req.hist, req.item_name)
    /\ req' = [req EXCEPT !.pc = "done", !.code = 400, !.cause = "forecast"]
    /\ UNCHANGED <<schedVars, dataVars, nLog, fnVars, crudVars>>
ReqForecastFail ==
    /\ req.pc = "forecast"
    /\ req.ep \in SingleEps
    /\ ForecastRaises(req.hist, req.item_name)
    /\ req' = [req EXCEPT !.pc = "done", !.code = 404, !.cause = "forecast"]
    /\ UNCHANGED <<schedVars, dataVars, nLog, fnVars, crudVars>>

\* The totals of one item in all_items_summary: the months of its forecast are
\* walked in order with the stock still on hand; a month adds its quantity to
\* the total forecast and what the stock on hand does not cover to the total
\* restock, and uses up the stock it draws on.
\* tot = <<total forecast so far, total restock so far>>
RECURSIVE SummaryTotals(_, _, _)
SummaryTotals(fc, onHand, tot) ==
    IF fc = <<>> THEN tot
    ELSE LET short == IF Head(fc) > onHand THEN Head(fc) - onHand ELSE 0
             left == IF Head(fc) > onHand THEN 0 ELSE onHand - Head(fc)
         IN  SummaryTotals(Tail(fc), left, <<tot[1] + Head(fc), tot[2] + short>>)

\* Variant: the summary plans every item from an empty shelf.
AllItemsSummaryEmptyShelf(hist, table) ==
    {[item_name |-> Norm(r.item_name),
      current_stock |-> StockMapGet(GetStockFromDb(table), Norm(r.item_name)),
      total_forecast |-> SummaryTotals(Forecast6(hist, r.item_name), 0, <<0, 0>>)[1],
      total_restock |-> SummaryTotals(Forecast6(hist, r.item_name), 0, <<0, 0>>)[2]]
        : r \in hist}

\* all_items_summary(hist, stock_df): one row per item of the history, with
\* its stock on hand and its six-month totals.
AllItemsSummary(hist, table) ==
    {LET stock == StockMapGet(GetStockFromDb(table), Norm(r.item_name))
         tot == SummaryTotals(Forecast6(hist, r.item_name), stock, <<0, 0>>)
     IN  [item_name |-> Norm(r.item_name),
          current_stock |-> stock,
          total_forecast |-> tot[1],
          total_restock |-> tot[2]]
        : r \in hist}

ReqForecastAll ==
    /\ req.pc = "forecast"
    /\ req.ep = "forecast_all"
    /\ LET table == AllItemsSummary(req.hist, stockTable)
       IN  req' = [req EXCEPT
                      !.body = [NoBody EXCEPT !.kind = "rows", !.rows = table],
                      !.pc = "log",
                      !.prev = [calls |-> IF req.prev.calls = 0 THEN 1 ELSE 2,
                                rows |-> table,
                                cache |-> cache]]
    /\ UNCHANGED <<schedVars, dataVars, nLog, fnVars, crudVars>>

\* next_month_all_items: history rows are mapped to the stock table's names by
\* their stripped, case-folded key; rows without a match are dropped; one row
\* per remaining name whose forecast does not raise.
DbKeyToName(stock_df, key) ==
    LET hits == {i \in 1..Len(stock_df) : Norm(stock_df[i].name) = key}
    IN  stock_df[MaxOf(hits)].name
DbKeys(stock_df) == {Norm(stock_df[i].name) : i \in 1..Len(stock_df)}

\* hist["canonical_name"] = ...; dropna; groupby(...)["quantity"].sum()
CanonicalHist(hist, stock_df) ==
    {HistRow(DbKeyToName(stock_df, k), SumQty({x \in hist : Norm(x.item_name) = k}))
        : k \in DbKeys(stock_df) \cap {Norm(x.item_name) : x \in hist}}

\* Variant: the first forecast that raises ends the loop without a row.
NextMonthAllRowsAbort(hist, table, failed) ==
    LET stock_df == GetStockFromDb(table)
        canon == CanonicalHist(hist, stock_df)
    IN  IF failed # {} THEN {}
        ELSE {[item_name |-> r.item_name,
               current_stock |-> StockMapGet(stock_df, Norm(r.item_name)),
               next_month_forecast |-> ForecastNextMonth(canon, r.item_name)]
                 : r \in {x \in canon : ~ForecastRaises(canon, x.item_name)}}

\* failed: the names whose forecast_next_month_safe call raised, whatever the
\* cause; "except Exception: continue" skips them.
NextMonthAllRows(hist, table, failed) ==
    LET stock_df == GetStockFromDb(table)
        canon == CanonicalHist(hist, stock_df)
    IN  {[item_name |-> r.item_name,
          current_stock |-> StockMapGet(stock_df, Norm(r.item_name)),
          next_month_forecast |-> ForecastNextMonth(canon, r.item_name)]
            : r \in {x \in canon : /\ ~ForecastRaises(canon, x.item_name)
                                    /\ x.item_name \notin failed}}

ReqNextMonthAll ==
    /\ req.pc = "forecast"
    /\ req.ep = "next_month_all"
    /\ \E failed \in SUBSET {x.item_name :
                    x \in CanonicalHist(req.hist, GetStockFromDb(stockTable))} :
            req' = [req EXCEPT
                       !.failed = failed,
                       !.body = [NoBody EXCEPT
                                    !.kind = "rows",
                                    !.rows = NextMonthAllRows(req.hist, stockTable,
                                                              failed)],
                       !.pc = "log"]
    /\ UNCHANGED <<schedVars, dataVars, nLog, fnVars, crudVars>>

\* path = export_month_plan(item_name, plan, filetype)
ReqExport ==
    /\ req.pc = "export"
    /\ req' = [req EXCEPT !.pc = "log"]
    /\ UNCHANGED <<schedVars, dataVars, nLog, fnVars, crudVars>>

\* export_month_plan raised; nothing catches it: 500
ReqExportFail ==
    /\ req.pc = "export"
    /\ req' = [req EXCEPT !.pc = "done", !.code = 500, !.cause = "export",
                          !.body = NoBody]
    /\ UNCHANGED <<schedVars, dataVars, nLog, fnVars, crudVars>>

\* log_activity(...) wrote its row, then the handler returns: 200
ReqLog ==
    /\ req.pc = "log"
    /\ nLog' = nLog + 1
    /\ req' = [req EXCEPT !.pc = "done", !.code = 200]
    /\ UNCHANGED <<schedVars, dataVars, fnVars, crudVars>>

\* log_activity(...) failed and swallowed the failure; the handler returns: 200
ReqLogSwallowed ==
    /\ req.pc = "log"
    /\ req' = [req EXCEPT !.pc = "done", !.code = 200]
    /\ UNCHANGED <<schedVars, dataVars, nLog, fnVars, crudVars>>

ReqClose ==
    /\ req.pc = "done"
    /\ req' = IdleReq
    /\ UNCHANGED <<schedVars, dataVars, nLog, fnVars, crudVars>>

\* The response is sent to a client that will ask for the summary again.
ReqCloseRepeat ==
    /\ req.pc = "done"
    /\ req' = [IdleReq EXCEPT !.prev = req.prev]
    /\ UNCHANGED <<schedVars, dataVars, nLog, fnVars, crudVars>>

\* Variant: the shutdown handler leaves the scheduler task alone.
ShutdownNoCancel ==
    /\ proc = "up"
    /\ proc' = "stopping"
    /\ skipSawManual' = skipSawManual
    /\ UNCHANGED <<now, restarts, schedPc, sleepStart, workerPc, manPc, rd,
                   status, cache, disk, startsToday, procStartsToday, nFailed,
                   dataVars, reqVars, fnVars, crudVars>>

\* -------------------------------------------------------- process lifecycle
\* _shutdown: task.cancel().  The scheduler task ends at its await; a call
\* already running in the worker thread is not interrupted, and neither are the
\* request handlers under way.
Shutdown ==
    /\ proc = "up"
    /\ proc' = "stopping"
    /\ schedPc' = "cancelled"
    /\ skipSawManual' = skipSawManual
    /\ UNCHANGED <<now, restarts, sleepStart, workerPc, manPc, rd, status, cache,
                   disk, startsToday, procStartsToday, nFailed,
                   dataVars, reqVars, fnVars, crudVars>>

\* Variant: the new process creates the scheduler task over an empty cache.
RestartNoLoad ==
    /\ restarts < MaxRestarts
    /\ restarts' = restarts + 1
    /\ proc' = "up"
    /\ status' = [source |-> "none", last_trained_utc |-> Missing]
    /\ cache' = "none"
    /\ schedPc' = "startup_sleep"
    /\ sleepStart' = now
    /\ workerPc' = "none"
    /\ manPc' = "idle"
    /\ rd' = IdleRd
    /\ procStartsToday' = 0
    /\ skipSawManual' = FALSE
    /\ UNCHANGED <<now, disk, startsToday, nFailed, dataVars, reqVars, fnVars, crudVars>>

\* The process ends (after a shutdown, or killed) and a new one runs _startup:
\* load_models_from_disk(), then the scheduler task is created.
Restart ==
    /\ restarts < MaxRestarts
    /\ restarts' = restarts + 1
    /\ proc' = "up"
    /\ status' = disk.status
    /\ cache' = disk.models
    /\ schedPc' = "startup_sleep"
    /\ sleepStart' = now
    /\ workerPc' = "none"
    /\ manPc' = "idle"
    /\ rd' = IdleRd
    /\ procStartsToday' = 0
    /\ skipSawManual' = FALSE
    /\ UNCHANGED <<now, disk, startsToday, nFailed, dataVars, reqVars, fnVars, crudVars>>

\* ------------------------------------------------------------ specification
Next ==
    \/ Tick
    \/ SchedWakeTrain
    \/ SchedWakeSkip
    \/ SchedTrainFinished
    \/ SchedTrainFailed
    \/ WorkerTrain
    \/ WorkerPersist
    \/ WorkerRaise
    \/ WorkerHang
    \/ ManualStart
    \/ ManualLoad
    \/ ManualTrain
    \/ ManualSave
    \/ ManualRaise
    \/ ManualRespond
    \/ ReadStart
    \/ ReadDone
    \/ ReadClose
    \/ Shutdown
    \/ Restart

Spec == Init /\ [][Next]_vars

\* The scheduler and the trainings of a process that is neither shut down nor
\* restarted, with a worker thread that keeps being scheduled and an event loop
\* that resumes the scheduler when the awaited call has ended.  Read requests
\* touch nothing the scheduler reads and are left out.
WorkerStep == WorkerTrain \/ WorkerPersist \/ WorkerRaise \/ WorkerHang
SchedResume == SchedTrainFinished \/ SchedTrainFailed

NextRunning ==
    \/ Tick
    \/ SchedWakeTrain
    \/ SchedWakeSkip
    \/ SchedTrainFinished
    \/ SchedTrainFailed
    \/ WorkerTrain
    \/ WorkerPersist
    \/ WorkerRaise
    \/ WorkerHang
    \/ ManualStart
    \/ ManualLoad
    \/ ManualTrain
    \/ ManualSave
    \/ ManualRaise
    \/ ManualRespond

LiveSpec ==
    Init /\ [][NextRunning]_vars /\ WF_vars(WorkerStep) /\ WF_vars(SchedResume)

\* The forecast endpoints served by a process whose scheduler sleeps, against
\* each combination of stock table, database history, spreadsheet history and
\* model cache.
ReqInit ==
    /\ InitSched
    /\ status.last_trained_utc = Missing \/ status.last_trained_utc = Iso(0)
    /\ stockTable \in StockTables
    /\ dbHist \in DbHists
    /\ xlsHist \in XlsHists
    /\ nLog = 0
    /\ req = IdleReq
    /\ FnIdle

ReqNext ==
    \/ ReqStart
    \/ ReqLoadDb
    \/ ReqLoadXls
    \/ ReqLoadFail
    \/ ReqStock
    \/ ReqStockFail
    \/ ReqForecast
    \/ ReqForecastFail
    \/ ReqForecastAll
    \/ ReqNextMonthAll
    \/ ReqExport
    \/ ReqExportFail
    \/ ReqLog
    \/ ReqLogSwallowed
    \/ ReqClose

ReqSpec == ReqInit /\ [][ReqNext]_vars

\* One running process serving every kind of request next to its scheduler:
\* manual trainings, status and model reads and forecasts, while the scheduled
\* retrain runs in the worker; an item in stock with history in both sources,
\* no snapshot on disk yet.
ServeInit ==
    /\ InitSched
    /\ status.last_trained_utc = Missing
    /\ stockTable = <<StockRow(<<"B">>, MaxQty)>>
    /\ dbHist = {HistRow(<<"B">>, MaxQty)}
    /\ xlsHist = {HistRow(<<"b", " ">>, 1)}
    /\ nLog = 0
    /\ req = IdleReq
    /\ FnIdle

ServeNext ==
    \/ SchedWakeTrain
    \/ SchedWakeSkip
    \/ SchedTrainFinished
    \/ SchedTrainFailed
    \/ WorkerTrain
    \/ WorkerPersist
    \/ WorkerRaise
    \/ WorkerHang
    \/ ManualStart
    \/ ManualLoad
    \/ ManualTrain
    \/ ManualSave
    \/ ManualRaise
    \/ ManualRespond
    \/ ReadStart
    \/ ReadDone
    \/ ReadClose
    \/ ReqNext

ServeSpec == ServeInit /\ [][ServeNext]_vars

\* A client that asks for the forecasts again and again, the summary of all
\* items among them, while manual trainings replace the model cache.
RepeatNext ==
    \/ ReqStart
    \/ ReqLoadDb
    \/ ReqLoadXls
    \/ ReqLoadFail
    \/ ReqStock
    \/ ReqStockFail
    \/ ReqForecast
    \/ ReqForecastFail
    \/ ReqForecastAll
    \/ ReqNextMonthAll
    \/ ReqExport
    \/ ReqExportFail
    \/ ReqLog
    \/ ReqLogSwallowed
    \/ ReqCloseRepeat
    \/ ManualStart
    \/ ManualLoad
    \/ ManualTrain
    \/ ManualSave
    \/ ManualRaise
    \/ ManualRespond

RepeatSpec == ServeInit /\ [][RepeatNext]_vars

\* ------------------------------------------- the restock plan, as a function
MaxMonths == 3
MaxStock == 3

\* monthly forecasts: one non-negative quantity per month
Forecasts == UNION {[1..n -> 0..MaxQty] : n \in 0..MaxMonths}

\* recommended_restock_plan(monthly, current_stock) is called ...
PlanInit ==
    /\ InitSched
    /\ status.last_trained_utc = Missing
    /\ stockTable = <<>>
    /\ dbHist = {}
    /\ xlsHist = {}
    /\ nLog = 0
    /\ req = IdleReq
    /\ \E fc \in Forecasts, stock \in 0..MaxStock :
            calc = [pc |-> "called", fc |-> fc, stock |-> stock, rows |-> <<>>]
    /\ bt = IdleBt
    /\ batch = IdleBatch
    /\ la = IdleLa
    /\ CrudIdle

\* ... and returns its rows
PlanReturn ==
    /\ calc.pc = "called"
    /\ calc' = [calc EXCEPT !.pc = "done",
                            !.rows = RestockPlan(calc.fc, calc.stock)]
    /\ UNCHANGED <<schedVars, dataVars, reqVars, bt, batch, la, crudVars>>

PlanNext ==
    \/ PlanReturn

PlanSpec == PlanInit /\ [][PlanNext]_vars

\* ------------------------------- forecast_from_train (backtest_predictive.py)
MaxTrain == 13
MaxHorizon == 2
MinModelMonths == 12

\* A float of a data frame: NaN, or a number (quantities in units, model
\* outputs in tenths of a unit).
NaN == [nan |-> TRUE, v |-> 0]
Num(v) == [nan |-> FALSE, v |-> v]

\* train_df["y"]: months alternating between two quantities, the first month
\* possibly without a value
TrainSeries(n, a, b, gap) ==
    [i \in 1..n |-> IF gap /\ i = 1 THEN NaN
                    ELSE IF i % 2 = 1 THEN Num(a) ELSE Num(b)]

\* train_df["y"].dropna()
DropNa(ys) == SelectSeq(ys, LAMBDA y : ~y.nan)

\* Variant: the rows of the frame, populated or not.
NMonthsOfRows(ys) == Len(ys)
\* n_months = train_df["y"].dropna().shape[0]
NMonths(ys) == Len(DropNa(ys))

RECURSIVE SumY(_)
SumY(ys) == IF ys = <<>> THEN 0 ELSE Head(ys).v + SumY(Tail(ys))

\* int(fallback_next_month(train_df)): the mean of the populated months, cut
\* to its integer part
IntFallbackNextMonth(ys) == SumY(DropNa(ys)) \div NMonths(ys)

\* what model.predict may give for a month, in tenths
YhatValues ==
    {NaN} \cup {Num(t) : t \in {-15, -5, -4, 0, 4, 5, 6, 15, 25}}

\* .fillna(0.0)
FillNa(y) == IF y.nan THEN 0 ELSE y.v
\* .clip(lower=0.0)
ClipLower(t) == Max2(0, t)
\* .round(0).astype(int): tenths to units, halves to the even neighbour
RoundHalfEven(t) ==
    LET q == t \div 10
        r == t % 10
    IN  IF r < 5 THEN q
        ELSE IF r > 5 THEN q + 1
        ELSE IF q % 2 = 0 THEN q ELSE q + 1

\* Variant: the prediction is rounded as it comes.
ForecastQtyNoClip(y) == RoundHalfEven(FillNa(y))
\* fc["forecast_qty"] = fc["yhat"].fillna(0.0).clip(lower=0.0).round(0).astype(int)
ForecastQty(y) == RoundHalfEven(ClipLower(FillNa(y)))

\* backtest() calls forecast_from_train with a train frame that keeps at least
\* one populated month.
BtInit ==
    /\ InitSched
    /\ status.last_trained_utc = Missing
    /\ stockTable = <<>>
    /\ dbHist = {}
    /\ xlsHist = {}
    /\ nLog = 0
    /\ req = IdleReq
    /\ calc = IdleCalc
    /\ batch = IdleBatch
    /\ la = IdleLa
    /\ CrudIdle
    /\ \E n \in 1..MaxTrain, a \in 0..MaxQty, b \in 0..MaxQty,
          gap \in BOOLEAN, h \in 1..MaxHorizon :
            /\ NMonths(TrainSeries(n, a, b, gap)) >= 1
            /\ bt = [IdleBt EXCEPT !.pc = "called",
                                   !.ys = TrainSeries(n, a, b, gap),
                                   !.horizon = h]

\* if n_months < 12: the fallback's value for every month of the horizon
BtFallback ==
    /\ bt.pc = "called"
    /\ NMonths(bt.ys) < MinModelMonths
    /\ bt' = [bt EXCEPT !.pc = "done", !.path = "heuristic",
                        !.out = [i \in 1..bt.horizon |->
                                    IntFallbackNextMonth(bt.ys)]]
    /\ UNCHANGED <<schedVars, dataVars, reqVars, calc, batch, la, crudVars>>

\* model = _fit_monthly_prophet(...) (the branch n_months < 2 before it cannot
\* be taken)
BtFit ==
    /\ bt.pc = "called"
    /\ ~(NMonths(bt.ys) < MinModelMonths)
    /\ bt' = [bt EXCEPT !.pc = "predict", !.path = "model"]
    /\ UNCHANGED <<schedVars, dataVars, reqVars, calc, batch, la, crudVars>>

\* model.predict(future): one more month of the horizon and its forecast_qty
BtPredictMonth ==
    /\ bt.pc = "predict"
    /\ Len(bt.out) < bt.horizon
    /\ \E y \in YhatValues :
            bt' = [bt EXCEPT !.yhat = Append(@, y),
                            !.out = Append(@, ForecastQty(y))]
    /\ UNCHANGED <<schedVars, dataVars, reqVars, calc, batch, la, crudVars>>

\* return list(zip(...))
BtReturn ==
    /\ bt.pc = "predict"
    /\ Len(bt.out) = bt.horizon
    /\ bt' = [bt EXCEPT !.pc = "done"]
    /\ UNCHANGED <<schedVars, dataVars, reqVars, calc, batch, la, crudVars>>

BtNext ==
    \/ BtFallback
    \/ BtFit
    \/ BtPredictMonth
    \/ BtReturn

BtSpec == BtInit /\ [][BtNext]_vars

\* ------------------------------------------- a training pass, item by item
MaxItems == 3

\* item names, in the order the pass takes them
Items == 1..MaxItems

\* the items of a set in ascending order
RECURSIVE Ascending(_)
Ascending(S) ==
    IF S = {} THEN <<>>
    ELSE LET m == CHOOSE x \in S : \A y \in S : x <= y
         IN  <<m>> \o Ascending(S \ {m})

SeqSet(q) == {q[i] : i \in 1..Len(q)}

\* /predictive/train/all is called with some models cached and some items of
\* the history eligible.
BatchInit ==
    /\ InitSched
    /\ status.last_trained_utc = Missing
    /\ stockTable = <<>>
    /\ dbHist = {}
    /\ xlsHist = {}
    /\ nLog = 0
    /\ req = IdleReq
    /\ calc = IdleCalc
    /\ bt = IdleBt
    /\ la = IdleLa
    /\ CrudIdle
    /\ \E el \in SUBSET Items, ms \in SUBSET Items :
            batch = [IdleBatch EXCEPT !.pc = "load", !.eligible = el,
                                      !.todo = Ascending(el), !.models = ms]

\* df = load_history_from_excel(); train_models_for_eligible_items(df) starts
BatchLoad ==
    /\ batch.pc = "load"
    /\ batch' = [batch EXCEPT !.pc = "fit"]
    /\ UNCHANGED <<schedVars, dataVars, reqVars, calc, bt, la, crudVars>>

\* the fit of the next item succeeds: its model replaces the cached one, so
\* the cache now holds models of this pass
BatchFitOk ==
    /\ batch.pc = "fit"
    /\ batch.todo # <<>>
    /\ batch' = [batch EXCEPT !.todo = Tail(@),
                              !.trained = Append(@, Head(batch.todo)),
                              !.models = @ \cup {Head(batch.todo)}]
    /\ cache' = "csv_manual"
    /\ UNCHANGED <<now, proc, restarts, schedPc, sleepStart, workerPc, manPc,
                   rd, status, disk, startsToday, procStartsToday, nFailed,
                   skipSawManual,
                   dataVars, reqVars, calc, bt, la, crudVars>>

\* Variant: a failed fit ends the pass.
BatchFitFailAborts ==
    /\ batch.pc = "fit"
    /\ batch.todo # <<>>
    /\ batch' = [batch EXCEPT !.todo = <<>>,
                              !.skipped = Append(@, Head(batch.todo))]
    /\ UNCHANGED <<schedVars, dataVars, reqVars, calc, bt, la, crudVars>>
\* the fit of the next item fails: the item is skipped, the pass goes on
BatchFitFail ==
    /\ batch.pc = "fit"
    /\ batch.todo # <<>>
    /\ batch' = [batch EXCEPT !.todo = Tail(@),
                              !.skipped = Append(@, Head(batch.todo))]
    /\ UNCHANGED <<schedVars, dataVars, reqVars, calc, bt, la, crudVars>>

\* trained, skipped = ...; save_models_to_disk(source="csv_manual", ...), which
\* stamps the status and persists it with the cache; return {...}
BatchSave ==
    /\ batch.pc = "fit"
    /\ batch.todo = <<>>
    /\ batch' = [batch EXCEPT !.pc = "done", !.code = 200]
    /\ status' = NewStatus("csv_manual")
    /\ disk' = Snapshot(status', cache)
    /\ UNCHANGED <<now, proc, restarts, schedPc, sleepStart, workerPc, manPc,
                   rd, cache, startsToday, procStartsToday, nFailed,
                   skipSawManual,
                   dataVars, reqVars, calc, bt, la, crudVars>>

\* the load, the training call (with items still to fit or not) or the save
\* raised: except Exception turns it into HTTPException(400, "Training
\* failed"); the items left are not attempted
BatchRaise ==
    /\ batch.pc \in {"load", "fit"}
    /\ batch' = [batch EXCEPT !.pc = "done", !.code = 400]
    /\ UNCHANGED <<schedVars, dataVars, reqVars, calc, bt, la, crudVars>>

BatchNext ==
    \/ BatchLoad
    \/ BatchFitOk
    \/ BatchFitFail
    \/ BatchSave
    \/ BatchRaise

BatchSpec == BatchInit /\ [][BatchNext]_vars

\* ------------------------------------------ log_activity (activity_logger.py)
MaxUserId == 2

\* What a caller may hand over as user_id: None, an int, a str of digits, a
\* str that is no number, a finite float (n + 0.5), float("inf"), or an object
\* int() does not take (a list).
UserIds ==
    {[kind |-> k, n |-> 0] : k \in {"none", "text", "inf", "list"}}
        \cup {[kind |-> k, n |-> n] : k \in {"int", "digits", "float"},
                                     n \in 1..MaxUserId}

\* int(user_id): the exception it raises, if any
IntRaises(u) ==
    CASE u.kind = "text" -> "ValueError"
      [] u.kind = "list" -> "TypeError"
      [] u.kind = "inf" -> "OverflowError"
      [] OTHER -> "no"

\* int(user_id) where it returns: a float loses its fraction
IntOf(u) == IntVal(u.n)

LaInit ==
    /\ InitSched
    /\ status.last_trained_utc = Missing
    /\ stockTable = <<>>
    /\ dbHist = {}
    /\ xlsHist = {}
    /\ nLog = 0
    /\ req = IdleReq
    /\ calc = IdleCalc
    /\ bt = IdleBt
    /\ batch = IdleBatch
    /\ CrudIdle
    /\ \E u \in UserIds : la = [IdleLa EXCEPT !.pc = "convert", !.user_id = u]

\* uid = int(user_id) if user_id is not None else None;
\* except (TypeError, ValueError): uid = None
LaConvert ==
    /\ la.pc = "convert"
    /\ la.user_id.kind = "none" \/ IntRaises(la.user_id) # "OverflowError"
    /\ la' = [la EXCEPT !.uid = IF la.user_id.kind = "none" THEN Null
                                ELSE IF IntRaises(la.user_id) = "no"
                                     THEN IntOf(la.user_id)
                                     ELSE Null,
                        !.pc = "connect"]
    /\ UNCHANGED <<schedVars, dataVars, reqVars, calc, bt, batch, crudVars>>

\* int(user_id) raises what the except clause does not name: the call ends
\* with that exception
LaConvertRaise ==
    /\ la.pc = "convert"
    /\ la.user_id.kind # "none"
    /\ IntRaises(la.user_id) \notin {"no", "TypeError", "ValueError"}
    /\ la' = [la EXCEPT !.pc = "done", !.outcome = "raised"]
    /\ UNCHANGED <<schedVars, dataVars, reqVars, calc, bt, batch, crudVars>>

\* conn = get_db()
LaConnect ==
    /\ la.pc = "connect"
    /\ la' = [la EXCEPT !.conn = "open", !.pc = "cursor"]
    /\ UNCHANGED <<schedVars, dataVars, reqVars, calc, bt, batch, crudVars>>

\* cur = conn.cursor()
LaCursor ==
    /\ la.pc = "cursor"
    /\ la' = [la EXCEPT !.cur = "open", !.pc = "execute"]
    /\ UNCHANGED <<schedVars, dataVars, reqVars, calc, bt, batch, crudVars>>

\* cur.execute(INSERT ...)
LaExecute ==
    /\ la.pc = "execute"
    /\ la' = [la EXCEPT !.pc = "commit"]
    /\ UNCHANGED <<schedVars, dataVars, reqVars, calc, bt, batch, crudVars>>

\* conn.commit(): the row is in activity_logs
LaCommit ==
    /\ la.pc = "commit"
    /\ la' = [la EXCEPT !.row = <<la.uid>>, !.pc = "finally"]
    /\ UNCHANGED <<schedVars, dataVars, reqVars, calc, bt, batch, crudVars>>

\* except IntegrityError: logging.warning(...)
LaIntegrityError ==
    /\ la.pc \in {"execute", "commit"}
    /\ la' = [la EXCEPT !.logged = "warning", !.pc = "finally"]
    /\ UNCHANGED <<schedVars, dataVars, reqVars, calc, bt, batch, crudVars>>

\* except Exception: logging.exception(...)
LaException ==
    /\ la.pc \in {"connect", "cursor", "execute", "commit"}
    /\ la' = [la EXCEPT !.logged = "exception", !.pc = "finally"]
    /\ UNCHANGED <<schedVars, dataVars, reqVars, calc, bt, batch, crudVars>>

\* finally: cur.close() and conn.close() for what was opened, each with its
\* own failure swallowed; then the call returns
LaFinally ==
    /\ la.pc = "finally"
    /\ \E curOk \in BOOLEAN, connOk \in BOOLEAN :
            la' = [la EXCEPT
                     !.cur = IF la.cur = "none" THEN "none"
                             ELSE IF curOk THEN "closed" ELSE "close_raised",
                     !.conn = IF la.conn = "none" THEN "none"
                              ELSE IF connOk THEN "closed" ELSE "close_raised",
                     !.pc = "done", !.outcome = "returned"]
    /\ UNCHANGED <<schedVars, dataVars, reqVars, calc, bt, batch, crudVars>>

LaNext ==
    \/ LaConvert
    \/ LaConvertRaise
    \/ LaConnect
    \/ LaCursor
    \/ LaExecute
    \/ LaCommit
    \/ LaIntegrityError
    \/ LaException
    \/ LaFinally

LaSpec == LaInit /\ [][LaNext]_vars

\* ---------------------------------------------- /items requests (items.py)
InitStock == 1

ItemOps == {"add_item", "update_item", "delete_item", "add_stock"}

\* Everything but the item table and its requests is at rest.
ItemInit ==
    /\ InitSched
    /\ status.last_trained_utc = Missing
    /\ stockTable = <<>>
    /\ dbHist = {}
    /\ xlsHist = {}
    /\ nLog = 0
    /\ req = IdleReq
    /\ calc = IdleCalc
    /\ bt = IdleBt
    /\ batch = IdleBatch
    /\ la = IdleLa
    /\ itemTbl = [i \in RowIds |-> IF i = 1
                                    THEN [present |-> TRUE, stock |-> InitStock]
                                    ELSE NoRow]
    /\ hnd = [h \in Handlers |-> IdleHnd]
    /\ actLog = {}
    /\ ihist = [NoHist EXCEPT !.nextId = 2]
    /\ SideIdle

Entry(r) == [rid |-> r.rid, op |-> r.op, item_id |-> r.item_id]

\* A request arrives: conn = get_db(); cursor = conn.cursor()
ItemStart(h) ==
    /\ hnd[h].pc = "idle"
    /\ ihist.n < MaxReqs
    /\ \E op \in ItemOps, id \in ItemIds, q \in 1..MaxAdd :
            /\ op = "add_item" => id = 1
            /\ op = "delete_item" => q = 1
            /\ hnd' = [hnd EXCEPT ![h] =
                          [IdleHnd EXCEPT
                              !.pc = IF op = "add_item" THEN "write" ELSE "select",
                              !.op = op,
                              !.item_id = IF op = "add_item" THEN 0 ELSE id,
                              !.qty = q,
                              !.rid = ihist.n + 1,
                              !.conn = "open",
                              !.cur = "open"]]
    /\ ihist' = [ihist EXCEPT !.n = @ + 1]
    /\ UNCHANGED <<schedVars, dataVars, reqVars, fnVars, sideVars, itemTbl, actLog>>

\* Variant: the handler goes on without looking at the row it fetched.
ItemSelectNoCheck(h) ==
    /\ hnd[h].pc = "select"
    /\ hnd' = [hnd EXCEPT ![h].pc = "write",
                          ![h].row = itemTbl[hnd[h].item_id],
                          ![h].old_stock = itemTbl[hnd[h].item_id].stock,
                          ![h].new_stock =
                              itemTbl[hnd[h].item_id].stock + hnd[h].qty]
    /\ UNCHANGED <<schedVars, dataVars, reqVars, fnVars, sideVars, itemTbl, actLog, ihist>>
\* SELECT ... WHERE item_id = %s; row = cursor.fetchone();
\* if not row: raise HTTPException(404), through finally: both closed.
\* Otherwise old_stock and new_stock = old_stock + added_qty are computed.
ItemSelect(h) ==
    /\ hnd[h].pc = "select"
    /\ IF itemTbl[hnd[h].item_id].present
       THEN hnd' = [hnd EXCEPT ![h].pc = "write",
                               ![h].row = itemTbl[hnd[h].item_id],
                               ![h].old_stock = itemTbl[hnd[h].item_id].stock,
                               ![h].new_stock =
                                   itemTbl[hnd[h].item_id].stock + hnd[h].qty]
       ELSE hnd' = [hnd EXCEPT ![h].pc = "done", ![h].code = 404,
                               ![h].conn = "closed", ![h].cur = "closed"]
    /\ UNCHANGED <<schedVars, dataVars, reqVars, fnVars, sideVars, itemTbl, actLog, ihist>>

\* What the statement of an operation leaves of the table.
Written(r) ==
    CASE r.op = "add_item" ->
            [itemTbl EXCEPT ![ihist.nextId] =
                                [present |-> TRUE, stock |-> r.qty]]
      [] r.op = "update_item" ->
            IF itemTbl[r.item_id].present
            THEN [itemTbl EXCEPT ![r.item_id].stock = r.qty]
            ELSE itemTbl
      [] r.op = "delete_item" -> [itemTbl EXCEPT ![r.item_id] = NoRow]
      [] OTHER ->
            IF itemTbl[r.item_id].present
            THEN [itemTbl EXCEPT ![r.item_id].stock = r.new_stock]
            ELSE itemTbl

\* INSERT / UPDATE / DELETE; conn.commit(); finally: both closed
ItemCommit(h) ==
    /\ hnd[h].pc = "write"
    /\ LET id == IF hnd[h].op = "add_item" THEN ihist.nextId
                 ELSE hnd[h].item_id
           r == [hnd[h] EXCEPT !.item_id = id]
       IN  /\ itemTbl' = Written(hnd[h])
           /\ hnd' = [hnd EXCEPT ![h] = [r EXCEPT !.pc = "log",
                                                  !.conn = "closed",
                                                  !.cur = "closed"]]
           /\ ihist' = [ihist EXCEPT
                           !.nextId = IF r.op = "add_item" THEN @ + 1 ELSE @,
                           !.committed = @ \cup {Entry(r)},
                           !.onlyAdds[id] = @ /\ r.op = "add_stock"]
    /\ UNCHANGED <<schedVars, dataVars, reqVars, fnVars, sideVars, actLog>>

\* Variant: a failed statement is logged like a committed one.
ItemDbErrorLogs(h) ==
    /\ hnd[h].pc \in {"select", "write"}
    /\ hnd' = [hnd EXCEPT ![h].pc = "done", ![h].code = 500,
                          ![h].conn = "closed", ![h].cur = "closed"]
    /\ actLog' = actLog \cup {Entry(hnd[h])}
    /\ UNCHANGED <<schedVars, dataVars, reqVars, fnVars, sideVars, itemTbl, ihist>>
\* except mysql.connector.Error: conn.rollback(); raise; finally: both closed
ItemDbError(h) ==
    /\ hnd[h].pc \in {"select", "write"}
    /\ hnd' = [hnd EXCEPT ![h].pc = "done", ![h].code = 500,
                          ![h].conn = "closed", ![h].cur = "closed"]
    /\ UNCHANGED <<schedVars, dataVars, reqVars, fnVars, sideVars, itemTbl, actLog, ihist>>

\* log_activity(actor_id, ...) writes its row; the handler returns
ItemLog(h) ==
    /\ hnd[h].pc = "log"
    /\ actLog' = actLog \cup {Entry(hnd[h])}
    /\ hnd' = [hnd EXCEPT ![h].pc = "done", ![h].code = 200]
    /\ UNCHANGED <<schedVars, dataVars, reqVars, fnVars, sideVars, itemTbl, ihist>>

\* log_activity fails and swallows the failure; the handler returns
ItemLogSwallowed(h) ==
    /\ hnd[h].pc = "log"
    /\ hnd' = [hnd EXCEPT ![h].pc = "done", ![h].code = 200]
    /\ UNCHANGED <<schedVars, dataVars, reqVars, fnVars, sideVars, itemTbl, actLog, ihist>>

\* The response is sent; a successful add_stock has added its added_qty.
ItemRespond(h) ==
    /\ hnd[h].pc = "done"
    /\ hnd' = [hnd EXCEPT ![h] = IdleHnd]
    /\ ihist' = IF hnd[h].op = "add_stock" /\ hnd[h].code = 200
                THEN [ihist EXCEPT !.added[hnd[h].item_id] = @ + hnd[h].qty]
                ELSE ihist
    /\ UNCHANGED <<schedVars, dataVars, reqVars, fnVars, sideVars, itemTbl, actLog>>

ItemNext ==
    \E h \in Handlers :
        \/ ItemStart(h)
        \/ ItemSelect(h)
        \/ ItemCommit(h)
        \/ ItemDbError(h)
        \/ ItemLog(h)
        \/ ItemLogSwallowed(h)
        \/ ItemRespond(h)

ItemSpec == ItemInit /\ [][ItemNext]_vars

\* -------------------------------- PUT /stockcard/{item_id} (stockcard.py)
\* Everything of the predictive service and of the pure functions is at rest.
QuietInit ==
    /\ InitSched
    /\ status.last_trained_utc = Missing
    /\ stockTable = <<>>
    /\ dbHist = {}
    /\ xlsHist = {}
    /\ nLog = 0
    /\ req = IdleReq
    /\ calc = IdleCalc
    /\ bt = IdleBt
    /\ batch = IdleBatch
    /\ la = IdleLa

ItemsIdle ==
    /\ itemTbl = [i \in RowIds |-> NoRow]
    /\ hnd = [h \in Handlers |-> IdleHnd]
    /\ actLog = {}
    /\ ihist = NoHist

\* a movement of the payload: edited fields blank, or filled in
Movement(id, filled) ==
    [id |-> id,
     reference_no |-> IF filled THEN "R" ELSE "",
     office |-> IF filled THEN "O" ELSE "",
     days_to_consume |-> IF filled THEN "1" ELSE "NULL",
     receipt_qty |-> IF filled THEN "1" ELSE "NULL"]
Movements == {Movement(id, f) : id \in LineIds, f \in BOOLEAN}
Payloads == UNION {[1..n -> Movements] : n \in 0..MaxMoves}

\* order lines of the items in turn; the first one edited before, the others
\* not
InitLines ==
    [l \in LineIds |->
        IF l > MaxLineId THEN NoLine
        ELSE [present |-> TRUE, item_id |-> ((l - 1) % MaxItemId) + 1,
              order_id |-> l, quantity |-> l,
              reference_no |-> IF l = 1 THEN "R" ELSE "NULL",
              office |-> IF l = 1 THEN "O" ELSE "NULL",
              days_to_consume |-> IF l = 1 THEN "1" ELSE "NULL",
              receipt_qty |-> IF l = 1 THEN "1" ELSE "NULL"]]

\* conn = get_db(); cur = conn.cursor()
ScInit ==
    /\ QuietInit
    /\ ItemsIdle
    /\ au = IdleAu
    /\ orderLine = InitLines
    /\ \E id \in ItemIds, ms \in Payloads :
            sc = [IdleSc EXCEPT !.pc = "loop", !.item_id = id, !.movements = ms,
                                !.before = InitLines, !.tx = InitLines,
                                !.conn = "open"]

\* m.reference_no if m.reference_no else None
NoneIfEmpty(v) == IF v = "" THEN "NULL" ELSE v

\* UPDATE order_line SET ... WHERE order_line_id = %s AND item_id = %s
UpdateLine(tbl, m, item_id) ==
    [l \in LineIds |->
        IF tbl[l].present /\ l = m.id /\ tbl[l].item_id = item_id
        THEN [tbl[l] EXCEPT !.reference_no = NoneIfEmpty(m.reference_no),
                            !.office = NoneIfEmpty(m.office),
                            !.days_to_consume = m.days_to_consume,
                            !.receipt_qty = m.receipt_qty]
        ELSE tbl[l]]

\* Variant: every statement is committed as it is executed.
ScExecuteAutocommit ==
    /\ sc.pc = "loop"
    /\ sc.done < Len(sc.movements)
    /\ sc' = [sc EXCEPT !.tx = UpdateLine(sc.tx, sc.movements[sc.done + 1],
                                          sc.item_id),
                        !.done = @ + 1]
    /\ orderLine' = UpdateLine(sc.tx, sc.movements[sc.done + 1], sc.item_id)
    /\ UNCHANGED <<schedVars, dataVars, reqVars, fnVars, itemVars, au>>
\* for m in payload.movements: cur.execute(UPDATE ...), in the transaction
ScExecute ==
    /\ sc.pc = "loop"
    /\ sc.done < Len(sc.movements)
    /\ sc' = [sc EXCEPT !.tx = UpdateLine(sc.tx, sc.movements[sc.done + 1],
                                          sc.item_id),
                        !.done = @ + 1]
    /\ UNCHANGED <<schedVars, dataVars, reqVars, fnVars, itemVars, au, orderLine>>

\* a statement or the commit raised: finally: conn.close() drops the
\* transaction; 500
ScFail ==
    /\ sc.pc = "loop"
    /\ sc' = [sc EXCEPT !.pc = "done", !.code = 500, !.conn = "closed"]
    /\ UNCHANGED <<schedVars, dataVars, reqVars, fnVars, itemVars, au, orderLine>>

\* conn.commit(); return {"status": "ok", "updated": True}
ScCommit ==
    /\ sc.pc = "loop"
    /\ sc.done = Len(sc.movements)
    /\ orderLine' = sc.tx
    /\ sc' = [sc EXCEPT !.pc = "done", !.code = 200, !.conn = "closed"]
    /\ UNCHANGED <<schedVars, dataVars, reqVars, fnVars, itemVars, au>>

ScNext ==
    \/ ScExecute
    \/ ScFail
    \/ ScCommit

ScSpec == ScInit /\ [][ScNext]_vars

\* ------------------------------------------------ /refresh and /me (auth.py)
\* The cookie a request presents: none, an empty one, or a token string that
\* is garbage, expired or good. type, sub and role are the claims it carries.
Tokens ==
    {NoToken, [NoToken EXCEPT !.kind = "empty"]}
        \cup {[kind |-> k, type |-> t, sub |-> u, role |-> r] :
                  k \in {"invalid", "expired", "valid"},
                  t \in {"access", "refresh", "other", "none"},
                  u \in 1..MaxUserId,
                  r \in {"none", "Admin"}}

AuthEndpoints == {"refresh", "me"}

AuInit ==
    /\ QuietInit
    /\ ItemsIdle
    /\ orderLine = NoLines
    /\ sc = IdleSc
    /\ au = IdleAu

\* POST /refresh or GET /me arrives with its cookie
AuRequest ==
    /\ au.pc = "idle"
    /\ \E e \in AuthEndpoints, t \in Tokens :
            au' = [IdleAu EXCEPT !.pc = "present", !.ep = e, !.token = t]
    /\ UNCHANGED <<schedVars, dataVars, reqVars, fnVars, itemVars, orderLine, sc>>

\* if not refresh_token / if not access_token: raise HTTPException(401)
AuPresent ==
    /\ au.pc = "present"
    /\ au' = IF au.token.kind \in {"none", "empty"}
             THEN [au EXCEPT !.pc = "done", !.code = 401]
             ELSE [au EXCEPT !.pc = "verify"]
    /\ UNCHANGED <<schedVars, dataVars, reqVars, fnVars, itemVars, orderLine, sc>>

\* verify_token(token): the claims of a good token, ValueError otherwise
verify_token(t) == IF t.kind = "valid" THEN "claims" ELSE "ValueError"

\* try: claims = verify_token(...) except ValueError: raise HTTPException(401)
AuVerify ==
    /\ au.pc = "verify"
    /\ au' = IF verify_token(au.token) = "ValueError"
             THEN [au EXCEPT !.pc = "done", !.code = 401]
             ELSE [au EXCEPT !.pc = "type"]
    /\ UNCHANGED <<schedVars, dataVars, reqVars, fnVars, itemVars, orderLine, sc>>

\* The type each endpoint asks of its token.
WantedType(e) == IF e = "refresh" THEN "refresh" ELSE "access"

\* Variant: the claims are used whatever their type.
AuTypeCheckAny ==
    /\ au.pc = "type"
    /\ au' = [au EXCEPT !.pc = IF au.ep = "refresh" THEN "sign" ELSE "lookup"]
    /\ UNCHANGED <<schedVars, dataVars, reqVars, fnVars, itemVars, orderLine, sc>>

\* if claims.get("type") != "refresh" / "access": raise HTTPException(401)
AuTypeCheck ==
    /\ au.pc = "type"
    /\ au' = IF au.token.type # WantedType(au.ep)
             THEN [au EXCEPT !.pc = "done", !.code = 401]
             ELSE [au EXCEPT !.pc = IF au.ep = "refresh" THEN "sign"
                                   ELSE "lookup"]
    /\ UNCHANGED <<schedVars, dataVars, reqVars, fnVars, itemVars, orderLine, sc>>

\* role = claims.get("role") or "User"
RoleOf(t) == IF t.role = "none" THEN "User" ELSE t.role

\* sign_access, sign_refresh for int(claims["sub"]) and the role; both cookies
\* are set on the response.
AuRefreshSign ==
    /\ au.pc = "sign"
    /\ au' = [au EXCEPT
                 !.pc = "done",
                 !.code = 200,
                 !.cookies =
                     {[name |-> "AT", type |-> "access", sub |-> au.token.sub,
                       role |-> RoleOf(au.token)],
                      [name |-> "RT", type |-> "refresh", sub |-> au.token.sub,
                       role |-> RoleOf(au.token)]}]
    /\ UNCHANGED <<schedVars, dataVars, reqVars, fnVars, itemVars, orderLine, sc>>

\* SELECT ... WHERE u.user_id = %s; the row is returned, or 404 without one
AuMeLookup ==
    /\ au.pc = "lookup"
    /\ \E found \in BOOLEAN :
            au' = IF found
                  THEN [au EXCEPT !.pc = "done", !.code = 200,
                                  !.user = au.token.sub]
                  ELSE [au EXCEPT !.pc = "done", !.code = 404]
    /\ UNCHANGED <<schedVars, dataVars, reqVars, fnVars, itemVars, orderLine, sc>>

\* get_db() or the query raises; the finally clause closes what was opened
AuMeDbError ==
    /\ au.pc = "lookup"
    /\ au' = [au EXCEPT !.pc = "done", !.code = 500]
    /\ UNCHANGED <<schedVars, dataVars, reqVars, fnVars, itemVars, orderLine, sc>>

AuNext ==
    \/ AuRequest
    \/ AuPresent
    \/ AuVerify
    \/ AuTypeCheck
    \/ AuRefreshSign
    \/ AuMeLookup
    \/ AuMeDbError

AuSpec == AuInit /\ [][AuNext]_vars

\* ================================================================== claims
SchedAsleep == schedPc \in {"startup_sleep", "sleeping"}

\* A step of the scheduler out of a sleep: a wake-up and its check.
WakeUpStep ==
    /\ SchedAsleep
    /\ schedPc' \in {"training", "sleeping"}
    /\ <<schedPc, sleepStart>>' # <<schedPc, sleepStart>>

\* C1 as stated: over the whole execution, restarts included, the scheduler
\* starts at most one retrain per UTC calendar day.
C1_AtMostOneStartPerDay == startsToday <= 1

\* C1, amended: a running process starts at most one retrain per UTC calendar
\* day (after failed retrains and with manual trainings in between); only a
\* process restart can add a start on the same day.
C1_AtMostOneStartPerDayPerProcess ==
    /\ procStartsToday <= 1
    /\ startsToday <= 1 + restarts

C1_Witness ==
    /\ restarts = 0
    /\ nFailed >= 1
    /\ status.source = "csv_manual"
    /\ schedPc = "training"
    /\ procStartsToday = 1

\* C2: a wake-up starts a retrain if and only if last_trained_utc is not a
\* timestamp dated today (UTC); a missing, non-string or unparsable value is
\* never a timestamp dated today.
C2_RetrainIffDateDiffers ==
    [][WakeUpStep =>
        (schedPc' = "training" <=> status.last_trained_utc # Iso(Today))]_vars

C2_Witness ==
    /\ schedPc = "training"
    /\ workerPc = "running"
    /\ status.last_trained_utc = BadStr

\* C3: nothing excludes a manual training from a scheduled one: while the
\* scheduled training runs, a manual training can start and take each of its
\* steps, and while a manual training runs the scheduler can start its own.
C3_NoMutualExclusion ==
    /\ (proc = "up" /\ schedPc = "training") =>
          /\ manPc = "idle" => ENABLED ManualStart
          /\ manPc = "loading" => ENABLED ManualLoad
          /\ manPc = "training" => ENABLED ManualTrain
          /\ manPc = "saving" => ENABLED ManualSave
    /\ (proc = "up" /\ manPc \in {"loading", "training", "saving"}
            /\ SleepOver /\ status.last_trained_utc # Iso(Today))
          => ENABLED SchedWakeTrain

C3_Witness ==
    /\ schedPc = "training"
    /\ workerPc = "persisting"
    /\ manPc = "saving"

\* C4: a failed retrain attempt never ends the scheduler: the exception is
\* caught, the scheduler sleeps, and its next check comes no sooner than the
\* daily interval later; while the process is up the task is alive.
C4_FailureCaught ==
    /\ [](proc = "up" => schedPc \in {"startup_sleep", "sleeping", "training"})
    /\ [][(schedPc = "training" /\ workerPc = "failed" /\ schedPc' # "training"
             /\ proc' = "up" /\ restarts' = restarts)
            => (schedPc' = "sleeping" /\ sleepStart' = now)]_vars
    /\ [][(schedPc = "sleeping" /\ WakeUpStep)
            => now - sleepStart >= TicksPerDay]_vars

C4_Witness ==
    /\ proc = "up"
    /\ restarts = 0
    /\ nFailed >= 2
    /\ schedPc = "sleeping"

\* C5: while the process runs, every training call that ends (returns or
\* raises) brings the scheduler from Training back to Idle; a call that never
\* returns keeps it in Training for ever, so no later check happens.
C5_TrainingReturnsToIdle ==
    /\ (schedPc = "training") ~> (schedPc = "sleeping" \/ workerPc = "hung")
    /\ [][(schedPc = "training" /\ workerPc = "hung")
            => (schedPc' = "training" /\ workerPc' = "hung")]_vars

C5_Witness ==
    /\ schedPc = "sleeping"
    /\ sleepStart = now
    /\ nFailed >= 1
    /\ status = NewStatus("db_auto")

\* C6: while the scheduled training is in progress, request handlers can
\* start and complete.
C6_RequestsNotBlocked ==
    (proc = "up" /\ schedPc = "training") =>
        /\ rd.pc = "idle" => ENABLED ReadStart
        /\ rd.pc = "running" => ENABLED ReadDone
        /\ manPc = "idle" => ENABLED ManualStart
        /\ manPc \in {"done200", "done400"} => ENABLED ManualRespond

C6_Witness ==
    /\ schedPc = "training"
    /\ workerPc = "running"
    /\ rd.pc = "done"
    /\ rd.during

\* C7: the status changes only in the last step of a training pass that did
\* not raise (the save of a manual training, the persist of a scheduled one);
\* a manual training that raises answers 400 with status and snapshot as they
\* were, and so does a failed scheduled retrain, every status or model read
\* and every forecast request.
ManualSaveStep ==
    manPc = "saving" /\ manPc' = "done200" /\ status' = NewStatus("csv_manual")
WorkerPersistStep ==
    workerPc = "persisting" /\ workerPc' = "ok" /\ status' = NewStatus("db_auto")

C7_StatusFrame ==
    /\ [][status' # status => (ManualSaveStep \/ WorkerPersistStep)]_vars
    /\ [][(manPc # "done400" /\ manPc' = "done400")
            => (status' = status /\ disk' = disk)]_vars
    /\ [][(workerPc # "failed" /\ workerPc' = "failed")
            => (status' = status /\ disk' = disk)]_vars
    /\ [][(rd' # rd \/ req' # req) => (status' = status /\ disk' = disk)]_vars

C7_Witness ==
    /\ manPc = "done400"
    /\ nFailed >= 1
    /\ rd.pc = "done"
    /\ req.pc = "done"
    /\ req.code = 200
    /\ cache = "csv_manual"
    /\ status.last_trained_utc = Missing

\* C8 as stated: every forecast endpoint loads history from the database
\* first and reads the spreadsheet only after the database load came back
\* empty.
C8_DbFirstSpreadsheetOnlyIfEmpty ==
    (req.ep \in Endpoints /\ req.reads # <<>>) =>
        /\ req.reads[1] = "db"
        /\ \A i \in 1..Len(req.reads) :
              req.reads[i] = "xls" => (i = 2 /\ req.dbEmpty)

\* C9: a single-item forecast request answers 400 exactly when its history
\* load raised and 404 exactly when its forecast raised; either way it returns
\* no forecast and writes no activity-log row.
C9_ErrorOutcomesDistinct ==
    (req.pc = "done" /\ req.ep \in SingleEps) =>
        /\ req.cause = "load" <=> req.code = 400
        /\ req.cause = "forecast" <=> req.code = 404
        /\ req.code \in {400, 404} => (req.body = NoBody /\ nLog = req.log0)

C9_Witness ==
    /\ req.pc = "done"
    /\ req.ep = "forecast_item"
    /\ req.code = 404
    /\ req.reads = <<"db", "xls">>
    /\ req.log0 > 0

\* C10 as stated: a single-item forecast answers every name that is equal to
\* the requested one after trimming and case-folding with the same current
\* stock, forecast and restock plan.
C10_SameAnswerForEqualNames ==
    (req.ep \in SingleEps /\ req.body # NoBody) =>
        \A m \in Names :
            Norm(m) = Norm(req.item_name) =>
                /\ ~ForecastRaises(req.hist, m)
                /\ req.body = SingleBody(req.ep, req.hist, m,
                                         CurrentStock(stockTable, m))

\* The stock carried into month i of a plan: the stock on hand for the first
\* month, afterwards what the month before left of its running stock.
RECURSIVE RunningStock(_, _, _)
RunningStock(fc, stock, i) ==
    IF i = 1 THEN stock
    ELSE Max2(0, RunningStock(fc, stock, i - 1) - fc[i - 1])

\* C11: the restock plan has one row per forecast month; the row of month i is
\* max(0, forecast_i - running stock), where the running stock starts at the
\* current stock and each month carries max(0, running stock - forecast) into
\* the next; so the first row is max(0, forecast_1 - current_stock) and no row
\* is negative.
C11_RestockPlanRunningStock ==
    calc.pc = "done" =>
        /\ Len(calc.rows) = Len(calc.fc)
        /\ \A i \in 1..Len(calc.fc) :
                /\ calc.rows[i] =
                       Max2(0, calc.fc[i] - RunningStock(calc.fc, calc.stock, i))
                /\ calc.rows[i] >= 0
        /\ calc.fc # <<>> => calc.rows[1] = Max2(0, calc.fc[1] - calc.stock)

\* a plan whose stock covers the first month, part of the second and nothing of
\* the third
C11_Witness ==
    /\ calc.pc = "done"
    /\ Len(calc.fc) = 3
    /\ calc.stock > calc.fc[1]
    /\ calc.rows[1] = 0
    /\ calc.rows[2] > 0
    /\ calc.rows[2] < calc.fc[2]
    /\ calc.rows[3] = calc.fc[3]
    /\ calc.rows[3] > 0

\* C12: with the current stock and the other months fixed, a larger forecast
\* for month i never gives a smaller recommended restock for month i.
C12_RestockMonotoneInForecast ==
    calc.pc = "done" =>
        \A i \in 1..Len(calc.fc) :
            \A q \in calc.fc[i]..(MaxQty + 1) :
                RestockPlan([calc.fc EXCEPT ![i] = q], calc.stock)[i]
                    >= calc.rows[i]

\* a plan in which one more unit of forecast in the second month is one more
\* unit to restock in that month
C12_Witness ==
    /\ calc.pc = "done"
    /\ Len(calc.fc) >= 2
    /\ calc.stock > 0
    /\ RestockPlan([calc.fc EXCEPT ![2] = calc.fc[2] + 1], calc.stock)[2]
           = calc.rows[2] + 1

\* A step in which /predictive/forecast/all gets its rows from
\* all_items_summary.
SummaryStep ==
    /\ req.ep = "forecast_all"
    /\ req.pc = "forecast"
    /\ req'.pc = "log"

C14_ForecastQtyNonNegative ==
    /\ \A i \in 1..Len(bt.out) : bt.out[i] \in Nat
    /\ \A i \in 1..Len(bt.yhat) :
           /\ (bt.yhat[i].nan \/ bt.yhat[i].v < 0) => bt.out[i] = 0
           /\ (~bt.yhat[i].nan /\ bt.yhat[i].v >= 0) =>
                  /\ 10 * bt.out[i] - bt.yhat[i].v <= 5
                  /\ bt.yhat[i].v - 10 * bt.out[i] <= 5

\* a returned model forecast with a negative prediction for its first month
\* and a positive one for its second
C14_Witness ==
    /\ bt.pc = "done"
    /\ bt.path = "model"
    /\ Len(bt.yhat) = 2
    /\ ~bt.yhat[1].nan
    /\ bt.yhat[1].v < 0
    /\ bt.out[1] = 0
    /\ bt.out[2] > 0

\* The months of a train frame that hold a quantity.
Populated(ys) == Cardinality({i \in 1..Len(ys) : ~ys[i].nan})

\* C15: the path is decided by the number of populated months alone: with 12 or
\* more of them (of a history that is not constant) the statistical model
\* forecasts, with fewer than 12 the heuristic does, and its one base value
\* fills every month of the horizon.
C15_EligibilityThreshold ==
    bt.pc = "done" =>
        /\ Len(bt.out) = bt.horizon
        /\ Populated(bt.ys) >= MinModelMonths => bt.path = "model"
        /\ Populated(bt.ys) < MinModelMonths =>
               /\ bt.path = "heuristic"
               /\ \A i \in 1..bt.horizon : bt.out[i] = bt.out[1]

\* a history of exactly 12 populated months, not constant, forecast by the
\* model
C15_Witness ==
    /\ bt.pc = "done"
    /\ Populated(bt.ys) = MinModelMonths
    /\ \E i \in 1..Len(bt.ys) : ~bt.ys[i].nan /\ bt.ys[i] # bt.ys[Len(bt.ys)]
    /\ bt.path = "model"

\* C16: /predictive/next_month/item, once history and stock are read, answers
\* 200 with a non-negative integer forecast for an item with at least one
\* history record, with or without a cached model, and 404 for an item
\* without any: forecast_next_month_safe raises only for the latter.
C16_NextMonthSafe ==
    (req.ep = "next_month_item" /\ req.pc = "done"
        /\ req.cause \notin {"load", "stock"}) =>
        /\ HasHistory(req.hist, req.item_name) =>
               /\ req.code = 200
               /\ req.body.kind = "next_month"
               /\ Len(req.body.forecast) = 1
               /\ req.body.forecast[1] \in Nat
        /\ ~HasHistory(req.hist, req.item_name) => req.code = 404

\* an item with history and no cached model answered with its forecast
C16_Witness ==
    /\ req.ep = "next_month_item"
    /\ req.pc = "done"
    /\ HasHistory(req.hist, req.item_name)
    /\ ~CachedModel(Norm(req.item_name))
    /\ req.code = 200
    /\ req.body.forecast[1] > 0

\* The eligible items the pass has got to so far.
Attempted == batch.eligible \ SeqSet(batch.todo)

\* C17: in a training pass the failed fit of one item puts that item in
\* skipped and nothing else: every attempted item is in exactly one of trained
\* and skipped, once, and a pass that answers 200 has attempted every eligible
\* item.
C17_FitFailureIsolated ==
    batch.pc # "idle" =>
        /\ SeqSet(batch.trained) \cup SeqSet(batch.skipped) = Attempted
        /\ SeqSet(batch.trained) \cap SeqSet(batch.skipped) = {}
        /\ Len(batch.trained) + Len(batch.skipped) = Cardinality(Attempted)
        /\ SeqSet(batch.trained) \subseteq batch.models
        /\ batch.code = 200 => Attempted = batch.eligible

\* a finished pass in which the first item's fit failed and a later item was
\* trained, persisted with its status
C17_Witness ==
    /\ batch.pc = "done"
    /\ batch.code = 200
    /\ batch.skipped # <<>>
    /\ batch.trained # <<>>
    /\ batch.skipped[1] < batch.trained[1]
    /\ status = NewStatus("csv_manual")
    /\ disk = Snapshot(status, "csv_manual")

\* C18: a process start puts the persisted snapshot into the cache and the
\* status before the scheduler exists, without a retrain; and the first check
\* of a scheduler whose persisted last_trained_utc is dated today starts no
\* retrain.
C18_SnapshotLoadedBeforeScheduler ==
    [][/\ restarts' # restarts =>
              /\ cache' = disk.models
              /\ status' = disk.status
              /\ disk' = disk
              /\ schedPc' = "startup_sleep"
              /\ workerPc' = "none"
              /\ startsToday' = startsToday
       /\ (schedPc = "startup_sleep" /\ WakeUpStep
              /\ disk.status.last_trained_utc = Iso(Today)) =>
              /\ schedPc' = "sleeping"
              /\ workerPc' = workerPc
              /\ startsToday' = startsToday]_vars

\* a restarted process, on a day on which the process before it started a
\* retrain, asleep after its first check with the persisted models in its
\* cache and no retrain of its own
C18_Witness ==
    /\ restarts = 1
    /\ proc = "up"
    /\ schedPc = "sleeping"
    /\ Day(sleepStart) = Today
    /\ startsToday = 1
    /\ procStartsToday = 0
    /\ disk.status.last_trained_utc = Iso(Today)
    /\ cache = disk.models
    /\ cache = "db_auto"

\* C19: the scheduler task exists while the process is up and is cancelled by
\* the shutdown, out of its sleep or out of its wait for the worker; after the
\* shutdown no scheduled retrain starts; the cancellation leaves a training
\* call that runs in the worker as it is, and the call can go on.
C19_CancelledAtShutdown ==
    /\ [](proc = "up" => schedPc # "cancelled")
    /\ [](proc = "stopping" => schedPc = "cancelled")
    /\ []((proc = "stopping" /\ workerPc \in {"running", "persisting"})
             => ENABLED WorkerStep)
    /\ [][/\ (proc = "up" /\ proc' = "stopping") => workerPc' = workerPc
          /\ (proc = "stopping" /\ proc' = "stopping") =>
                 /\ startsToday' <= startsToday
                 /\ (workerPc' = "running" => workerPc = "running")]_vars

\* after a shutdown, the scheduler cancelled while the training call it
\* awaited is persisting its result in the worker
C19_Witness ==
    /\ proc = "stopping"
    /\ schedPc = "cancelled"
    /\ workerPc = "persisting"

\* C20: log_activity returns normally for every user_id and every failure of
\* connecting, inserting or committing, with close() called on the cursor and
\* the connection it opened; a user_id that is no integer is logged as NULL.
C20_LogActivityNeverRaises ==
    la.pc = "done" =>
        /\ la.outcome = "returned"
        /\ la.cur # "open"
        /\ la.conn # "open"
        /\ (la.row # <<>> /\ la.user_id.kind \in {"none", "text", "inf", "list"})
               => la.row[1] = Null

\* C21: once every add_stock request on an item has returned, the item's
\* stock_quantity is its initial value plus the added_qty of every successful
\* request, however the requests' reads and writes interleaved; and each
\* request's new_stock is its old_stock + added_qty.
C21_NoLostIncrement ==
    /\ \A h \in Handlers :
           (hnd[h].op = "add_stock" /\ hnd[h].code = 200) =>
               hnd[h].new_stock = hnd[h].old_stock + hnd[h].qty
    /\ (\A h \in Handlers : hnd[h].pc = "idle") =>
           \A i \in RowIds :
               (itemTbl[i].present /\ ihist.onlyAdds[i]) =>
                   itemTbl[i].stock = InitStock + ihist.added[i]

\* The row a request leaves of an order line when all its movements are
\* applied: the fields of the last movement naming the line, if the line
\* exists and is of the item of the path.
LastMove(l) ==
    LET ks == {k \in 1..Len(sc.movements) : sc.movements[k].id = l}
    IN  IF ks = {} THEN 0 ELSE CHOOSE k \in ks : \A j \in ks : j <= k

C22_AllApplied ==
    [l \in LineIds |->
        IF sc.before[l].present /\ sc.before[l].item_id = sc.item_id
              /\ LastMove(l) # 0
        THEN [sc.before[l] EXCEPT
                !.reference_no =
                    IF sc.movements[LastMove(l)].reference_no = "" THEN "NULL"
                    ELSE sc.movements[LastMove(l)].reference_no,
                !.office =
                    IF sc.movements[LastMove(l)].office = "" THEN "NULL"
                    ELSE sc.movements[LastMove(l)].office,
                !.days_to_consume = sc.movements[LastMove(l)].days_to_consume,
                !.receipt_qty = sc.movements[LastMove(l)].receipt_qty]
        ELSE sc.before[l]]

\* C22: update_stock_card inserts and deletes no order line; it changes only
\* reference_no, office, days_to_consume and receipt_qty, only of lines named
\* in the payload that belong to the item of the path; and the table holds
\* either every movement of the request (answer 200) or none of them.
C22_StockCardFrame ==
    sc.pc # "idle" =>
        /\ \A l \in LineIds :
               /\ orderLine[l].present = sc.before[l].present
               /\ orderLine[l].item_id = sc.before[l].item_id
               /\ orderLine[l].order_id = sc.before[l].order_id
               /\ orderLine[l].quantity = sc.before[l].quantity
               /\ orderLine[l] # sc.before[l] =>
                      /\ LastMove(l) # 0
                      /\ sc.before[l].item_id = sc.item_id
        /\ orderLine = IF sc.code = 200 THEN C22_AllApplied ELSE sc.before

\* a committed request with two movements, one changing a line of the item,
\* the other naming a line of another item, which stays as it was
C22_Witness ==
    /\ sc.pc = "done"
    /\ sc.code = 200
    /\ Len(sc.movements) = 2
    /\ orderLine # sc.before
    /\ \E k \in 1..2 :
           /\ sc.before[sc.movements[k].id].present
           /\ sc.before[sc.movements[k].id].item_id # sc.item_id
           /\ orderLine[sc.movements[k].id] = sc.before[sc.movements[k].id]


\* C23 as stated: a check of the scheduler made while a manual training is in
\* progress starts the scheduler's own retrain.
C23_CheckDuringManualRetrains ==
    [][(WakeUpStep /\ ManualInProgress) =>
           /\ schedPc' = "training"
           /\ workerPc' = "running"]_vars

\* C23: a manual training that succeeds stamps the status with the UTC day of
\* its save, and a check of the scheduler on that day which finds that status
\* starts no retrain; a manual training still in progress has not touched the
\* status, so a check made meanwhile decides on the timestamp from before it:
\* it starts the scheduler's own retrain when that timestamp is not dated
\* today, and starts none when an earlier training of today left it.
C23_ManualTrainingAndCheck ==
    [][/\ (manPc = "saving" /\ manPc' = "done200") =>
              /\ status' = [last_trained_utc |-> Iso(Today),
                            source |-> "csv_manual"]
              /\ disk'.status = status'
       /\ (WakeUpStep /\ status.source = "csv_manual"
              /\ status.last_trained_utc = Iso(Today)) =>
              /\ schedPc' = "sleeping"
              /\ workerPc' = workerPc
              /\ startsToday' = startsToday
       /\ (ManualInProgress /\ manPc' # manPc /\ manPc' # "done200") =>
              /\ status' = status
              /\ disk' = disk
       /\ (WakeUpStep /\ ManualInProgress
              /\ status.last_trained_utc # Iso(Today)) =>
              /\ schedPc' = "training"
              /\ workerPc' = "running"
              /\ startsToday' = startsToday + 1
       /\ (WakeUpStep /\ ManualInProgress
              /\ status.last_trained_utc = Iso(Today)) =>
              /\ schedPc' = "sleeping"
              /\ workerPc' = workerPc
              /\ startsToday' = startsToday]_vars

\* the scheduler asleep after a check of today, made while a manual training
\* was in progress, that found the status of an earlier manual training of
\* today and started no retrain
C23_Witness ==
    /\ restarts = 0
    /\ schedPc = "sleeping"
    /\ sleepStart = now
    /\ procStartsToday = 0
    /\ nFailed = 0
    /\ workerPc = "none"
    /\ skipSawManual
    /\ ManualInProgress
    /\ status = [last_trained_utc |-> Iso(Today), source |-> "csv_manual"]

\* C24: an activity-log entry of an item request is written only once the
\* request's mutation is committed, so every entry belongs to a committed
\* mutation; a request that ends in a database error rolls back, leaves the
\* item table as it was and writes no entry.
C24_LogOnlyAfterCommit ==
    /\ [](actLog \subseteq ihist.committed)
    /\ [][\A h \in Handlers :
              /\ (hnd'[h].code = 500 /\ hnd[h].code # 500) =>
                      /\ actLog' = actLog
                      /\ itemTbl' = itemTbl
                      /\ ihist'.committed = ihist.committed
                      /\ Entry(hnd[h]) \notin (actLog \cup ihist.committed)
              /\ (Entry(hnd[h]) \notin actLog /\ Entry(hnd[h]) \in actLog') =>
                      /\ hnd[h].pc = "log"
                      /\ Entry(hnd[h]) \in ihist.committed]_vars

\* one request has logged its committed mutation, another one failed while
\* writing and left neither a mutation nor an entry
C24_Witness ==
    \E h, g \in Handlers :
        /\ hnd[h].pc = "done" /\ hnd[h].code = 200
        /\ Entry(hnd[h]) \in actLog
        /\ hnd[g].pc = "done" /\ hnd[g].code = 500
        /\ hnd[g].op = "add_item"
        /\ Entry(hnd[g]) \notin (actLog \cup ihist.committed)

LooksUpItem == {"update_item", "delete_item", "add_stock"}

\* C25: update_item, delete_item and add_stock on an item_id that has no row
\* answer 404 (a failing SELECT apart, which answers 500), change nothing in
\* the item table, write no activity-log entry, and leave with the cursor and
\* the connection closed.
C25_MissingItemIs404 ==
    /\ [][\A h \in Handlers :
              (/\ hnd[h].pc = "select"
               /\ hnd'[h] # hnd[h]
               /\ ~itemTbl[hnd[h].item_id].present) =>
                  /\ hnd[h].op \in LooksUpItem
                  /\ hnd'[h].pc = "done"
                  /\ hnd'[h].code \in {404, 500}
                  /\ hnd'[h].conn = "closed"
                  /\ hnd'[h].cur = "closed"
                  /\ itemTbl' = itemTbl
                  /\ actLog' = actLog
                  /\ ihist'.committed = ihist.committed]_vars
    /\ [](\A h \in Handlers :
              hnd[h].code = 404 =>
                  /\ hnd[h].pc = "done"
                  /\ hnd[h].op \in LooksUpItem
                  /\ hnd[h].conn = "closed"
                  /\ hnd[h].cur = "closed"
                  /\ Entry(hnd[h]) \notin (actLog \cup ihist.committed))

\* an add_stock for an item_id without a row has been answered 404
C25_Witness ==
    \E h \in Handlers :
        /\ hnd[h].pc = "done"
        /\ hnd[h].code = 404
        /\ hnd[h].op = "add_stock"
        /\ ~itemTbl[hnd[h].item_id].present
        /\ hnd[h].conn = "closed"
        /\ Entry(hnd[h]) \notin actLog

GoodFor(e, t) == t.kind = "valid" /\ t.type = WantedType(e)

\* C26: /refresh sets the two new cookies only for a cookie that verifies and
\* carries type 'refresh', /me returns a user only for one that verifies and
\* carries type 'access'; a missing, invalid or wrong-type token is answered
\* 401 and no cookie is set.
C26_TokenTypeGate ==
    /\ au.cookies # {} =>
            /\ au.ep = "refresh"
            /\ au.token.kind = "valid"
            /\ au.token.type = "refresh"
            /\ au.code = 200
            /\ {c.name : c \in au.cookies} = {"AT", "RT"}
            /\ \A c \in au.cookies : c.sub = au.token.sub
    /\ au.user # 0 =>
            /\ au.ep = "me"
            /\ au.token.kind = "valid"
            /\ au.token.type = "access"
            /\ au.code = 200
            /\ au.user = au.token.sub
    /\ (au.pc = "done" /\ ~GoodFor(au.ep, au.token)) =>
            /\ au.code = 401
            /\ au.cookies = {}
            /\ au.user = 0
    /\ au.code = 401 => ~GoodFor(au.ep, au.token)

\* /refresh has answered a good token of type 'access' with 401
C26_Witness ==
    /\ au.pc = "done"
    /\ au.ep = "refresh"
    /\ au.token.kind = "valid"
    /\ au.token.type = "access"
    /\ au.code = 401
    /\ au.cookies = {}

\* A /predictive/next_month/all request that has built its rows.
NextMonthAllBuilt ==
    /\ req.ep = "next_month_all"
    /\ req.pc \in {"log", "done"}
    /\ req.body.kind = "rows"

StockKeys == {Norm(stockTable[i].name) : i \in 1..Len(stockTable)}
HistKeys == {Norm(x.item_name) : x \in req.hist}
\* The name a row of the stock table is reported under: that of the last row
\* with its key, stripped.
ReportedAs(i) ==
    LET last == MaxOf({j \in 1..Len(stockTable) :
                          Norm(stockTable[j].name) = Norm(stockTable[i].name)})
    IN  Strip(stockTable[last].name)
\* The items of the stock table that have history and whose forecast did not
\* raise.
ForecastItems ==
    {i \in 1..Len(stockTable) :
        /\ Norm(stockTable[i].name) \in HistKeys
        /\ ReportedAs(i) \notin req.failed}

\* C27 as stated: the rows of /predictive/next_month/all are as many as the
\* items of the stock table that have history under an equal name (trimmed,
\* case-folded) and whose forecast did not raise.
C27_OneRowPerStockItem ==
    NextMonthAllBuilt =>
        Cardinality(req.body.rows) = Cardinality(ForecastItems)

\* C27: the rows of /predictive/next_month/all are one per trimmed,
\* case-folded name of the stock table that has history under it and whose
\* forecast did not raise, items with the same such name sharing one row that
\* carries the name and the stock quantity of the last of them; a forecast
\* that raises drops its own row only, history under names the stock table
\* lacks gives no row, and an empty stock table or no matching history gives
\* no row at all.
C27_OneRowPerStockName ==
    NextMonthAllBuilt =>
        /\ {r.item_name : r \in req.body.rows} =
                {ReportedAs(i) : i \in ForecastItems}
        /\ Cardinality(req.body.rows) =
                Cardinality({Norm(stockTable[i].name) : i \in ForecastItems})
        /\ \A r \in req.body.rows : Norm(r.item_name) \in StockKeys \cap HistKeys
        /\ \A r \in req.body.rows :
               \E i \in ForecastItems :
                   /\ \A j \in 1..Len(stockTable) :
                          Norm(stockTable[j].name) = Norm(stockTable[i].name)
                              => j <= i
                   /\ r.item_name = Strip(stockTable[i].name)
                   /\ r.current_stock = stockTable[i].qty
        /\ (stockTable = <<>> \/ StockKeys \cap HistKeys = {}) =>
                req.body.rows = {}

\* two items of the stock table with history, the forecast of one raised and
\* the other one has its row
C27_Witness ==
    /\ NextMonthAllBuilt
    /\ req.pc = "done"
    /\ req.code = 200
    /\ Len(stockTable) = 2
    /\ Cardinality(ForecastItems) = 1
    /\ req.failed # {}
    /\ Cardinality(req.body.rows) = 1
    /\ \A r \in req.body.rows : r.current_stock > 0

====
